---- MODULE Spec2Model ----
(***************************************************************************)
(* The execution engine of fEngine.py (main, process_plan, process_action) *)
(* and the dispatcher of x/xActions.py (runAction and the provider         *)
(* operations it reaches), as a state machine.                             *)
(*                                                                         *)
(* Text is a sequence of one-character strings, so that substitution,      *)
(* cache keys, error messages and file names are computed as the code      *)
(* computes them.                                                          *)
(***************************************************************************)
EXTENDS Integers, Sequences, FiniteSets, TLC

(***************************************************************************)
(* Bounds of the model.                                                    *)
(***************************************************************************)
\* longest action list of the plan under test
MaxActions == 3
\* a provider call takes 1..MaxDuration time units
MaxDuration == 2
\* process_action activations the interpreter's stack holds before it raises
\* RecursionError (sys.getrecursionlimit() frames in CPython)
RecursionLimit == 3

(***************************************************************************)
(* Text helpers.                                                           *)
(***************************************************************************)
WordChars ==
    {"a", "b", "c", "d", "e", "f", "g", "h", "i", "j", "k", "l", "m", "n", "o",
     "p", "q", "r", "s", "t", "u", "v", "w", "x", "y", "z",
     "A", "B", "C", "D", "E", "F", "G", "H", "I", "J", "K", "L", "M", "N", "O",
     "P", "Q", "R", "S", "T", "U", "V", "W", "X", "Y", "Z",
     "0", "1", "2", "3", "4", "5", "6", "7", "8", "9", "_"}

Whitespace == {" ", "\n", "\t"}

UpperCase == <<"A", "B", "C", "D", "E", "F", "G", "H", "I", "J", "K", "L", "M",
               "N", "O", "P", "Q", "R", "S", "T", "U", "V", "W", "X", "Y", "Z">>
LowerCase == <<"a", "b", "c", "d", "e", "f", "g", "h", "i", "j", "k", "l", "m",
               "n", "o", "p", "q", "r", "s", "t", "u", "v", "w", "x", "y", "z">>

\* str.lower()
LowerChar(c) ==
    IF \E i \in 1..26 : UpperCase[i] = c
    THEN LowerCase[CHOOSE i \in 1..26 : UpperCase[i] = c]
    ELSE c
Lower(t) == [i \in 1..Len(t) |-> LowerChar(t[i])]

\* t[i:] (1-based i)
Drop(t, i) == SubSeq(t, i, Len(t))

\* t.startswith(p) at position i
MatchAt(t, i, p) ==
    /\ i + Len(p) - 1 <= Len(t)
    /\ \A k \in 1..Len(p) : t[i + k - 1] = p[k]

\* t.find(p) + 1, or 0 when p does not occur in t
Least(S) == CHOOSE i \in S : \A j \in S : i <= j
Find(t, p) ==
    LET at == {i \in 1..Len(t) : MatchAt(t, i, p)}
    IN  IF at = {} THEN 0 ELSE Least(at)

\* t.strip(), t.rstrip()
RECURSIVE LStrip(_)
LStrip(t) == IF t # <<>> /\ t[1] \in Whitespace THEN LStrip(Tail(t)) ELSE t
RECURSIVE RStrip(_)
RStrip(t) ==
    IF t # <<>> /\ t[Len(t)] \in Whitespace THEN RStrip(SubSeq(t, 1, Len(t) - 1)) ELSE t
Strip(t) == LStrip(RStrip(t))

\* t.replace(a, b) for single characters
ReplaceChar(t, a, b) == [i \in 1..Len(t) |-> IF t[i] = a THEN b ELSE t[i]]

\* t.split(sep) for a one-character separator: the list of fields
RECURSIVE SplitAll(_, _)
SplitAll(t, sep) ==
    LET at == {i \in 1..Len(t) : t[i] = sep}
    IN  IF at = {} THEN <<t>>
        ELSE <<SubSeq(t, 1, Least(at) - 1)>> \o SplitAll(Drop(t, Least(at) + 1), sep)

\* re.sub(r"\s+", " ", t)
RECURSIVE CollapseWhitespace(_)
CollapseWhitespace(t) ==
    IF t = <<>> THEN <<>>
    ELSE IF t[1] \in Whitespace
         THEN <<" ">> \o CollapseWhitespace(LStrip(t))
         ELSE <<t[1]>> \o CollapseWhitespace(Tail(t))

\* the regex \b at position p of t (between t[p-1] and t[p])
WordBoundary(t, p) ==
    (p > 1 /\ t[p - 1] \in WordChars) # (p <= Len(t) /\ t[p] \in WordChars)

\* re.sub(r'\b' + re.escape(name) + r'\b', lambda m: value, t): the leftmost
\* non-overlapping whole-word occurrences of name, scanned from position i
RECURSIVE ReSubFrom(_, _, _, _)
ReSubFrom(name, value, t, i) ==
    IF i > Len(t) THEN <<>>
    ELSE IF /\ MatchAt(t, i, name)
            /\ WordBoundary(t, i)
            /\ WordBoundary(t, i + Len(name))
         THEN value \o ReSubFrom(name, value, t, i + Len(name))
         ELSE <<t[i]>> \o ReSubFrom(name, value, t, i + 1)
ReSub(name, value, t) == ReSubFrom(name, value, t, 1)

(***************************************************************************)
(* Text constants of the code.                                             *)
(***************************************************************************)
xUI == <<"x", "U", "I">>
xMath == <<"x", "M", "a", "t", "h">>
xAPI == <<"x", "A", "P", "I">>
xAI == <<"x", "A", "I">>
xJSON == <<"x", "J", "S", "O", "N">>
xReuse == <<"x", "R", "e", "u", "s", "e">>
xSAP == <<"x", "S", "A", "P">>
xLogin == <<"x", "L", "o", "g", "i", "n">>
xOpenBrowser == <<"x", "O", "p", "e", "n", "B", "r", "o", "w", "s", "e", "r">>
xCloseBrowser == <<"x", "C", "l", "o", "s", "e", "B", "r", "o", "w", "s", "e", "r">>
xGetTitle == <<"x", "G", "e", "t", "T", "i", "t", "l", "e">>
xStartTimer == <<"x", "S", "t", "a", "r", "t", "T", "i", "m", "e", "r">>
xStopTimer == <<"x", "S", "t", "o", "p", "T", "i", "m", "e", "r">>
xCompare == <<"x", "C", "o", "m", "p", "a", "r", "e">>
xGet == <<"x", "G", "e", "t">>
xExtractJson == <<"x", "E", "x", "t", "r", "a", "c", "t", "J", "s", "o", "n">>
Pass == <<"P", "a", "s", "s">>
Fail == <<"F", "a", "i", "l">>
Stacktrace == <<"S", "t", "a", "c", "k", "t", "r", "a", "c", "e", ":">>

\* str(e) of selenium's WebDriverException(msg)
WebDriverMessage(msg) == <<"M", "e", "s", "s", "a", "g", "e", ":", " ">> \o msg \o <<"\n">>

(***************************************************************************)
(* What the world outside the engine may answer.                           *)
(***************************************************************************)
\* str(e) of the errors a browser driver raises
DriverErrors == { <<"M", "e", "s", "s", "a", "g", "e", ":", " ", "t", "a", "b", " ", "c", "r", "a", "s", "h", "e", "d", ",", " ", "g", "o", "n", "e", "\n", "S", "t", "a", "c", "k", "t", "r", "a", "c", "e", ":", "\n", "#", "0", " ", "0", "x", "5", "5", "d", "1">> }
\* page titles
Titles == { <<"H", "o", "m", "e">> }
\* driver call: "ok", or the WebDriverException it raises
DriverAnswers == [kind : {"ok"}, text : Titles] \cup [kind : {"WebDriverException"}, text : DriverErrors]
\* xOpenBrowser: the same, or the browser starts and maximize_window() raises
OpenAnswers == DriverAnswers \cup [kind : {"WindowError"}, text : DriverErrors]
\* save_screenshot: True, False (the file could not be written), a WebDriverException,
\* or an error of another class (the connection to the driver is refused)
ScreenshotAnswers == {"True", "False", "WebDriverException", "OtherError"}
\* APIActionHandler._last_response: None, or the JSON document of the last
\* response (the documents here are objects of one key with a text value)
NoResponse == [key |-> <<>>, value |-> <<>>]
\* requests.get: a response with a JSON body, a response with a body that is no
\* JSON, or a ConnectionError
ResponseAnswers ==
    { [kind |-> "json", status |-> <<"2", "0", "0">>, body |-> [key |-> <<"i", "d">>, value |-> <<"a">>]],
      [kind |-> "text", status |-> <<"4", "0", "4">>, body |-> NoResponse],
      [kind |-> "ConnectionError", status |-> <<"C", "o", "n", "n", "e", "c", "t", "i", "o", "n", " ", "r", "e", "f", "u", "s", "e", "d">>, body |-> NoResponse] }
NoResponseAnswer == CHOOSE h \in ResponseAnswers : h.kind = "text"
\* the answers given where the action does not ask
NoDriverAnswer == CHOOSE d \in DriverAnswers : d.kind = "ok"

(***************************************************************************)
(* x/xActions.py                                                           *)
(***************************************************************************)
\* _sanitize_error_message
sanitize_error_message(message) ==
    IF message = <<>> THEN message
    ELSE LET at == Find(message, Stacktrace)
             cleaned == RStrip(IF at = 0 THEN message ELSE SubSeq(message, 1, at - 1))
         IN  Strip(CollapseWhitespace(cleaned))

\* the truth value of a StepId cell
Truthy(step_id) == step_id # <<>> /\ step_id # <<"0">>

\* f"{plan_id}_{design_id}_{step_id}{ext}" if step_id else f"{plan_id}_{design_id}{ext}"
ArtifactName(plan_id, design_id, step_id, ext) ==
    IF Truthy(step_id)
    THEN plan_id \o <<"_">> \o design_id \o <<"_">> \o step_id \o ext
    ELSE plan_id \o <<"_">> \o design_id \o ext

OutputPreviewLen == 140

\* output.split("Stacktrace:")[0].strip()
BeforeStacktrace(output) ==
    LET at == Find(output, Stacktrace)
    IN  Strip(IF at = 0 THEN output ELSE SubSeq(output, 1, at - 1))

\* len(output) > 140 or "," in output
NeedsFile(output) ==
    Len(output) > OutputPreviewLen \/ \E i \in 1..Len(output) : output[i] = ","

\* ActionHandler.save_output_to_file
save_output_to_file(output, plan_id, design_id, step_id, file_ok) ==
    IF output = <<>> THEN output
    ELSE LET out == BeforeStacktrace(output)
         IN  IF NeedsFile(out)
             THEN IF file_ok
                  THEN ReplaceChar(SubSeq(out, 1, IF Len(out) < OutputPreviewLen THEN Len(out) ELSE OutputPreviewLen), ",", ";")
                       \o <<" ", "[", "L", "i", "n", "k", " ", "t", "o", " ">> \o ArtifactName(plan_id, design_id, step_id, <<".", "t", "x", "t">>) \o <<"]">>
                  ELSE out
             ELSE ReplaceChar(out, ",", ";")

\* The outcome of a provider operation: what it returns or the str(e) of what it
\* raises, and UIActionHandler._shared_driver afterwards.
\* What an operation leaves: what it returned or the message of what it raised,
\* whether UIActionHandler._shared_driver is set afterwards (driver) and whether the
\* handler's own _driver is (own).
Returns(text, driver) == [raised |-> FALSE, text |-> text, driver |-> driver, own |-> driver]
Raises(text, driver) == [raised |-> TRUE, text |-> text, driver |-> driver, own |-> driver]
\* self._driver was assigned and the operation raised before it set _shared_driver
RaisesHolding(text, driver) == [raised |-> TRUE, text |-> text, driver |-> driver, own |-> TRUE]

\* UIActionHandler.xOpenBrowser
UI_xOpenBrowser(aIn, driver, env) ==
    IF driver
    THEN Returns(<<"B", "r", "o", "w", "s", "e", "r", " ", "a", "l", "r", "e", "a", "d", "y", " ", "o", "p", "e", "n">>, driver)
    ELSE LET browser_type == Lower(aIn)
         IN  IF browser_type \in { <<"c", "h", "r", "o", "m", "e">>, <<"f", "i", "r", "e", "f", "o", "x">>, <<"e", "d", "g", "e">> }
             THEN IF env.driver.kind = "ok"
                  THEN Returns(<<"O", "p", "e", "n", "e", "d", " ">> \o browser_type \o <<" ", "b", "r", "o", "w", "s", "e", "r">>, TRUE)
                  ELSE IF env.driver.kind = "WindowError"
                  THEN RaisesHolding(<<"F", "a", "i", "l", "e", "d", " ", "t", "o", " ", "o", "p", "e", "n", " ">> \o browser_type \o <<":", " ">> \o env.driver.text, driver)
                  ELSE Raises(<<"F", "a", "i", "l", "e", "d", " ", "t", "o", " ", "o", "p", "e", "n", " ">> \o browser_type \o <<":", " ">> \o env.driver.text, driver)
             ELSE Raises(<<"U", "n", "s", "u", "p", "p", "o", "r", "t", "e", "d", " ", "b", "r", "o", "w", "s", "e", "r", ":", " ">> \o browser_type, driver)

\* UIActionHandler.xGetTitle
UI_xGetTitle(driver, env) ==
    IF ~driver
    THEN Raises(WebDriverMessage(<<"D", "r", "i", "v", "e", "r", " ", "n", "o", "t", " ", "i", "n", "i", "t", "i", "a", "l", "i", "z", "e", "d">>), driver)
    ELSE IF env.driver.kind = "ok"
         THEN Returns(env.driver.text, driver)
         ELSE Raises(sanitize_error_message(<<"x", "G", "e", "t", "T", "i", "t", "l", "e", " ", "f", "a", "i", "l", "e", "d", ":", " ">> \o env.driver.text), driver)

\* UIActionHandler.xCloseBrowser
UI_xCloseBrowser(driver, env) ==
    IF driver
    THEN IF env.driver.kind = "ok"
         THEN Returns(<<"B", "r", "o", "w", "s", "e", "r", " ", "c", "l", "o", "s", "e", "d">>, FALSE)
         ELSE Raises(env.driver.text, driver)
    ELSE Returns(<<"N", "o", " ", "b", "r", "o", "w", "s", "e", "r", " ", "t", "o", " ", "c", "l", "o", "s", "e">>, driver)

\* MathActionHandler.xCompare
Math_xCompare(aIn, driver) ==
    LET vIn == SplitAll(aIn, ";")
    IN  IF Len(vIn) # 2
        THEN Raises(<<"I", "n", "v", "a", "l", "i", "d", " ", "i", "n", "p", "u", "t", " ", "f", "o", "r", " ", "x", "C", "o", "m", "p", "a", "r", "e", ":", " ">> \o aIn \o <<".", " ", "E", "x", "p", "e", "c", "t", "e", "d", " ", "'", "v", "a", "l", "u", "e", "1", ";", "v", "a", "l", "u", "e", "2", "'">>, driver)
        ELSE Returns(IF vIn[1] = vIn[2] THEN <<"T", "r", "u", "e">> ELSE <<"F", "a", "l", "s", "e">>, driver)

\* APIActionHandler.xGet
API_xGet(aIn, driver, env) ==
    IF Len(SplitAll(aIn, ";")) < 2
    THEN Raises(<<"l", "i", "s", "t", " ", "i", "n", "d", "e", "x", " ", "o", "u", "t", " ", "o", "f", " ", "r", "a", "n", "g", "e">>, driver)
    ELSE IF env.response.kind = "ConnectionError"
         THEN Raises(env.response.status, driver)
         ELSE Returns(env.response.status, driver)

\* APIActionHandler._last_response after xGet: response.json(), or None where
\* that raises ValueError; as before where xGet raised earlier
LastResponse(aT, aName, aIn, env) ==
    IF /\ aT = xAPI /\ aName = xGet
       /\ Len(SplitAll(aIn, ";")) >= 2
       /\ env.response.kind # "ConnectionError"
    THEN env.response.body
    ELSE env.last_response

\* The handler process_action makes for each call of it: __init__ takes the driver
\* from the class and assigns no _start_time.
NewUIActionHandler == [has_start_time |-> FALSE]

\* UIActionHandler.xStartTimer: the time is kept in the handler it was called on
UI_xStartTimer(handler, driver) == Returns(<<"T", "i", "m", "e", "r", " ", "s", "t", "a", "r", "t", "e", "d">>, driver)

\* UIActionHandler.xStopTimer; the elapsed time is formatted with two decimals
UI_xStopTimer(handler, driver) ==
    IF ~handler.has_start_time
    THEN Raises(<<"T", "i", "m", "e", "r", " ", "n", "o", "t", " ", "s", "t", "a", "r", "t", "e", "d", ".", " ", "C", "a", "l", "l", " ", "x", "S", "t", "a", "r", "t", "T", "i", "m", "e", "r", " ", "f", "i", "r", "s", "t", ".">>, driver)
    ELSE Returns(<<"0", ".", "0", "0">>, driver)

\* JSONActionHandler.xExtractJson with _get_json_value, for a key path of one key
JSON_xExtractJson(aIn, driver, env) ==
    IF env.last_response = NoResponse
    THEN Raises(<<"N", "o", " ", "J", "S", "O", "N", " ", "r", "e", "s", "p", "o", "n", "s", "e", " ", "a", "v", "a", "i", "l", "a", "b", "l", "e">>, driver)
    ELSE IF aIn = env.last_response.key
         THEN Returns(env.last_response.value, driver)
         ELSE Raises(<<"K", "e", "y", " ", "p", "a", "t", "h", " ", "'">> \o aIn \o <<"'", " ", "n", "o", "t", " ", "f", "o", "u", "n", "d", " ", "i", "n", " ", "J", "S", "O", "N">>, driver)

\* The action types runAction has a handler for ("xSAP" has None, as has any type
\* that is no key of handlers).
HandlerTypes == {xUI, xMath, xAPI, xAI, xJSON}

\* getattr(handler, aName, None): the operations of each provider that the model
\* covers, with the number of their parameters besides self.
Operations ==
    { [type |-> xUI, name |-> xOpenBrowser, params |-> 2],
      [type |-> xUI, name |-> xGetTitle, params |-> 0],
      [type |-> xUI, name |-> xCloseBrowser, params |-> 0],
      [type |-> xUI, name |-> xStartTimer, params |-> 0],
      [type |-> xUI, name |-> xStopTimer, params |-> 1],
      [type |-> xMath, name |-> xCompare, params |-> 1],
      [type |-> xAPI, name |-> xGet, params |-> 1],
      [type |-> xJSON, name |-> xExtractJson, params |-> 1] }

HasOperation(aT, aName) == \E op \in Operations : op.type = aT /\ op.name = aName

\* method() or method(aIn)
Invoke(aT, aName, aIn, driver, env) ==
    IF aT = xUI /\ aName = xOpenBrowser THEN UI_xOpenBrowser(aIn, driver, env)
    ELSE IF aT = xUI /\ aName = xGetTitle THEN UI_xGetTitle(driver, env)
    ELSE IF aT = xUI /\ aName = xCloseBrowser THEN UI_xCloseBrowser(driver, env)
    ELSE IF aT = xUI /\ aName = xStartTimer THEN UI_xStartTimer(NewUIActionHandler, driver)
    ELSE IF aT = xUI /\ aName = xStopTimer THEN UI_xStopTimer(NewUIActionHandler, driver)
    ELSE IF aT = xAPI THEN API_xGet(aIn, driver, env)
    ELSE IF aT = xJSON THEN JSON_xExtractJson(aIn, driver, env)
    ELSE Math_xCompare(aIn, driver)

\* float(t) for plain decimal text: [ok, mant, dec] with value mant / 10^dec;
\* ok = FALSE where float() raises ValueError. The value is the decimal's own: the
\* double float() gives is within one part in 10^15 of it, so a comparison with
\* 1e-6 comes out the same except for texts exactly 0.000001 apart.
Digits == <<"0", "1", "2", "3", "4", "5", "6", "7", "8", "9">>
DigitValue(c) == (CHOOSE i \in 1..10 : Digits[i] = c) - 1
IsDigit(c) == \E i \in 1..10 : Digits[i] = c
RECURSIVE DigitsValue(_)
DigitsValue(t) ==
    IF t = <<>> THEN 0 ELSE 10 * DigitsValue(SubSeq(t, 1, Len(t) - 1)) + DigitValue(t[Len(t)])
ParseFloat(t) ==
    LET s == Strip(t)
        negative == s # <<>> /\ s[1] = "-"
        body == IF s # <<>> /\ s[1] \in {"-", "+"} THEN Tail(s) ELSE s
        dots == {i \in 1..Len(body) : body[i] = "."}
        digits == SelectSeq(body, IsDigit)
        ok == /\ \A i \in 1..Len(body) : IsDigit(body[i]) \/ body[i] = "."
              /\ Cardinality(dots) <= 1
              /\ digits # <<>>
        dec == IF dots = {} THEN 0 ELSE Len(body) - (CHOOSE i \in dots : TRUE)
    IN  IF ok
        THEN [ok |-> TRUE, mant |-> (IF negative THEN -1 ELSE 1) * DigitsValue(digits), dec |-> dec]
        ELSE [ok |-> FALSE, mant |-> 0, dec |-> 0]

RECURSIVE Pow10(_)
Pow10(n) == IF n = 0 THEN 1 ELSE 10 * Pow10(n - 1)
Abs(n) == IF n < 0 THEN -n ELSE n
ToleranceDigits == 6
\* abs(expected_float - actual_float) < 1e-6
\* (the difference is apart / 10^(e.dec + a.dec))
WithinTolerance(e, a) ==
    LET apart == Abs(e.mant * Pow10(a.dec) - a.mant * Pow10(e.dec))
    IN  IF e.dec + a.dec >= ToleranceDigits
        THEN apart < Pow10(e.dec + a.dec - ToleranceDigits)
        ELSE apart = 0

\* a runAction that compares aExpected as written, without lower()
ExpectedPresentAsWritten(aExpected) ==
    aExpected # <<>> /\ aExpected \notin { <<"n", "a", "n">>, <<"n", "o", "n", "e">>, <<>> }

\* aExpected and str(aExpected).lower() not in ['nan', 'none', '']
ExpectedPresent(aExpected) ==
    aExpected # <<>> /\ Lower(aExpected) \notin { <<"n", "a", "n">>, <<"n", "o", "n", "e">>, <<>> }

\* a rule that compares the texts only
MatchesAsText(aExpected, vOut, e, a) == aExpected = vOut

\* the comparison of aExpected with vOut: of their float values e and a where float()
\* takes both, of the texts otherwise
Matches(aExpected, vOut, e, a) ==
    IF e.ok /\ a.ok THEN WithinTolerance(e, a) ELSE aExpected = vOut

\* the Pass/Fail rule of runAction for an operation that returned vOut
Verdict(aExpected, vOut) ==
    IF ExpectedPresent(aExpected)
    THEN IF Matches(aExpected, vOut, ParseFloat(aExpected), ParseFloat(vOut)) THEN Pass ELSE Fail
    ELSE Pass

\* handler or handlers.get(aT): is there a handler object
HasHandler(aT, handler_given) == handler_given \/ aT \in HandlerTypes

\* what the try block of runAction leaves behind: the verdict, the output, the driver
\* afterwards, whether a provider operation was called and whether it raised
Tried(vRes, vOut, driver, invoked, op_raised) ==
    [vRes |-> vRes, vOut |-> vOut, driver |-> driver, own |-> driver,
     invoked |-> invoked, op_raised |-> op_raised]

\* except Exception as e: the Fail outcome for an error with str(e) = message
Caught(aName, message, driver, invoked) ==
    Tried(Fail, <<"E", "r", "r", "o", "r", " ", "i", "n", " ">> \o aName \o <<":", " ">> \o sanitize_error_message(message),
          driver, invoked, invoked)

\* the try block after the operation returned or raised r
Judged(aName, aExpected, r) ==
    IF r.raised
    THEN [Caught(aName, r.text, r.driver, TRUE) EXCEPT !.own = r.own]
    ELSE Tried(Verdict(aExpected, r.text), r.text, r.driver, TRUE, FALSE)

\* the try block of runAction
TryAction(aT, aName, aIn, aExpected, driver, env) ==
    IF aT = xReuse
    THEN Tried(Pass, <<"R", "e", "u", "s", "e", "d", " ", "p", "l", "a", "n", ":", " ">> \o aName, driver, FALSE, FALSE)
    ELSE IF ~HasOperation(aT, aName)
    THEN Caught(aName, <<"U", "n", "k", "n", "o", "w", "n", " ">> \o aT \o <<" ", "a", "c", "t", "i", "o", "n", ":", " ">> \o aName, driver, FALSE)
    ELSE Judged(aName, aExpected, Invoke(aT, aName, aIn, driver, env))

\* aT == "xUI" and vRes.startswith("Fail") and handler._driver and results_dir
TakesScreenshot(aT, t) == aT = xUI /\ t.vRes = Fail /\ t.own

\* the row runAction appends to _errors.csv (StepInfo is written empty)
ErrorLogRow(aT, aName, plan_id, design_id, step_id, vOut) ==
    [PlanId |-> plan_id, DesignId |-> design_id, StepId |-> step_id,
     ActionType |-> aT, ActionName |-> aName, Output |-> ReplaceChar(vOut, ",", ";")]

\* the output after the screenshot block: save_screenshot returned, or raised a
\* WebDriverException that the block catches
Screenshot(aT, t, plan_id, design_id, step_id, answer) ==
    IF TakesScreenshot(aT, t) /\ answer \in {"True", "False"}
    THEN t.vOut \o <<" ", "[", "L", "i", "n", "k", " ", "t", "o", " ">> \o ArtifactName(plan_id, design_id, step_id, <<".", "p", "n", "g">>) \o <<"]">>
    ELSE t.vOut

\* return vRes, str(vOut), time_taken, after the error log got its row
Completed(aT, aName, plan_id, design_id, step_id, t, vOut, env) ==
    [escaped |-> FALSE, vRes |-> t.vRes, vOut |-> vOut, time_taken |-> env.time_taken,
     driver |-> t.driver, own |-> t.own, invoked |-> t.invoked, op_raised |-> t.op_raised,
     logged |-> IF t.vRes = Fail /\ env.log_ok
                THEN <<ErrorLogRow(aT, aName, plan_id, design_id, step_id, vOut)>>
                ELSE <<>>]

\* an exception leaves runAction
Escaped(type, msg, driver, own, invoked, op_raised) ==
    [escaped |-> TRUE, type |-> type, msg |-> msg, driver |-> driver, own |-> own,
     invoked |-> invoked, op_raised |-> op_raised]

\* runAction after its try block left t
AfterTry(aT, aName, plan_id, design_id, step_id, t, env) ==
    IF TakesScreenshot(aT, t) /\ env.screenshot = "OtherError"
    THEN Escaped("OtherError", <<"s", "a", "v", "e", "_", "s", "c", "r", "e", "e", "n", "s", "h", "o", "t">>, t.driver, t.own, t.invoked, t.op_raised)
    ELSE Completed(aT, aName, plan_id, design_id, step_id, t,
                   save_output_to_file(Screenshot(aT, t, plan_id, design_id, step_id, env.screenshot),
                                       plan_id, design_id, step_id, env.file_ok),
                   env)

\* runAction: an exception that escapes it, or (vRes, str(vOut), time_taken) with
\* the driver afterwards and the rows added to the error log
RunAction(aT, aName, aIn, aExpected, plan_id, design_id, step_id, handler_given, driver, env) ==
    IF ~HasHandler(aT, handler_given)
    THEN Escaped("ValueError", <<"U", "n", "k", "n", "o", "w", "n", " ", "a", "c", "t", "i", "o", "n", " ", "t", "y", "p", "e", ":", " ">> \o aT, driver, driver, FALSE, FALSE)
    ELSE AfterTry(aT, aName, plan_id, design_id, step_id,
                  TryAction(aT, aName, aIn, aExpected, driver, env), env)
(***************************************************************************)
(* The tables of a suite: yPlans, yActions, yDesigns as load_csv returns   *)
(* them (PlanId already a string that starts with 'P').                    *)
(***************************************************************************)
D1 == <<"D", "1">>
D2 == <<"D", "2">>
P1 == <<"P", "1">>
P2 == <<"P", "2">>
P9 == <<"P", "9">>
xFoo == <<"x", "F", "o", "o">>

\* y3Designs: one row per DataName, one column per design
yDesigns ==
    << [DataName |-> <<"u">>, value |-> [d \in {D1, D2} |-> IF d = D1 THEN <<"a">> ELSE <<"b">>]],
       [DataName |-> <<"v">>, value |-> [d \in {D1, D2} |-> <<"c">>]] >>
DesignColumns == {D1, D2}

ActionCell(type, name, input, expected, critical) ==
    [ActionType |-> type, ActionName |-> name, Input |-> input,
     Expected |-> expected, Critical |-> critical]

\* the action rows the plan under test takes its actions from, in this order
TopPool ==
    << ActionCell(xUI, xOpenBrowser, <<"c", "h", "r", "o", "m", "e">>, <<"n", "a", "n">>, <<"N">>),
       ActionCell(xUI, xGetTitle, <<"n", "a", "n">>, <<"H", "o", "m", "e">>, <<"Y">>),
       ActionCell(xUI, xFoo, <<"n", "a", "n">>, <<"n", "a", "n">>, <<"N">>),
       ActionCell(xReuse, P2, <<"n", "a", "n">>, <<"n", "a", "n">>, <<"N">>),
       ActionCell(xMath, xCompare, <<"v">>, <<"n", "a", "n">>, <<"Y">>),
       ActionCell(xMath, xCompare, <<"u", ";", "a">>, <<"T", "r", "u", "e">>, <<"N">>) >>

\* the action lists of the plan that is reused
ReusedLists ==
    { << ActionCell(xMath, xCompare, <<"u", ";", "a">>, <<"T", "r", "u", "e">>, <<"N">>),
         ActionCell(xMath, xCompare, <<"a", ";", "a">>, <<"T", "r", "u", "e">>, <<"N">>) >>,
      << ActionCell(xUI, xOpenBrowser, <<"i", "e">>, <<"n", "a", "n">>, <<"N">>),
         ActionCell(xMath, xFoo, <<"u">>, <<"n", "a", "n">>, <<"N">>),
         ActionCell(xMath, xCompare, <<"a", ";", "a">>, <<"T", "r", "u", "e">>, <<"N">>) >>,
      << ActionCell(xReuse, P1, <<"n", "a", "n">>, <<"n", "a", "n">>, <<"N">>) >>,
      << ActionCell(xReuse, P9, <<"n", "a", "n">>, <<"n", "a", "n">>, <<"N">>) >> }

\* str(StepId) of the i-th action row of a plan
StepText(i) == <<Digits[i + 1]>>

ActionRows(plan_id, cells) ==
    [i \in 1..Len(cells) |->
        [PlanId |-> plan_id, StepId |-> StepText(i), ActionType |-> cells[i].ActionType,
         ActionName |-> cells[i].ActionName, Input |-> cells[i].Input,
         Expected |-> cells[i].Expected, Critical |-> cells[i].Critical]]

\* the rows of TopPool at the positions in S, in the pool's order
Pick(S) ==
    LET at == SelectSeq([i \in 1..Len(TopPool) |-> i], LAMBDA i : i \in S)
    IN  [k \in 1..Len(at) |-> TopPool[at[k]]]

\* four more plans under test: one extracts from the last API response before and
\* after a request, one opens, closes and opens a browser, one begins with an action
\* of a type that has no handler, one starts and stops a timer; their Expected
\* cells are absent in the spellings a table can have, but for the extractions,
\* which expect the value of u for the design, and for the start of the timer
ProviderLists ==
    { << ActionCell(xJSON, xExtractJson, <<"i", "d">>, <<"u">>, <<"N">>),
         ActionCell(xAPI, xGet, <<"h", ";", "/", "x">>, <<>>, <<"N">>),
         ActionCell(xJSON, xExtractJson, <<"i", "d">>, <<"u">>, <<"N">>) >>,
      << ActionCell(xUI, xOpenBrowser, <<"c", "h", "r", "o", "m", "e">>, <<"n", "a", "n">>, <<"N">>),
         ActionCell(xUI, xCloseBrowser, <<"n", "a", "n">>, <<"N", "o", "n", "e">>, <<"N">>),
         ActionCell(xUI, xOpenBrowser, <<"f", "i", "r", "e", "f", "o", "x">>, <<"N", "a", "N">>, <<"N">>) >>,
      << ActionCell(xSAP, xLogin, <<"n", "a", "n">>, <<"n", "a", "n">>, <<"N">>),
         ActionCell(xMath, xCompare, <<"a", ";", "a">>, <<"T", "r", "u", "e">>, <<"N">>) >>,
      << ActionCell(xUI, xStartTimer, <<"n", "a", "n">>, <<"T", "i", "m", "e", "r", " ", "s", "t", "a", "r", "t", "e", "d">>, <<"N">>),
         ActionCell(xUI, xStopTimer, <<"t">>, <<"n", "a", "n">>, <<"N">>) >> }

\* a plan that asks for the title before and after it closes the browser
SessionLists ==
    { << ActionCell(xUI, xOpenBrowser, <<"c", "h", "r", "o", "m", "e">>, <<"n", "a", "n">>, <<"N">>),
         ActionCell(xUI, xGetTitle, <<"n", "a", "n">>, <<"n", "a", "n">>, <<"N">>),
         ActionCell(xUI, xCloseBrowser, <<"n", "a", "n">>, <<"n", "a", "n">>, <<"N">>),
         ActionCell(xUI, xGetTitle, <<"n", "a", "n">>, <<"n", "a", "n">>, <<"N">>) >> }

CellLists ==
    { Pick(S) : S \in { T \in SUBSET (1..Len(TopPool)) : Cardinality(T) \in 1..MaxActions } }
        \cup ProviderLists

HasReuse(cells) == \E i \in 1..Len(cells) : cells[i].ActionType = xReuse

FirstReusedList == CHOOSE l \in ReusedLists : l[1].ActionName = xCompare

\* the Run cell of a plan: only 'Y' makes main run it
RunCells == { <<"Y">>, <<"N">> }

\* a suite: P1 runs for D1 and D2; P2 is there to be reused, and runs for D2 if its
\* Run cell says so
Suite(top, reused, run) ==
    [plans |-> << [PlanId |-> P1, DesignId |-> <<"D", "1", ";", "D", "2">>, Run |-> <<"Y">>],
                  [PlanId |-> P2, DesignId |-> <<"D", "2">>, Run |-> run] >>,
     actions |-> ActionRows(P1, top) \o ActionRows(P2, reused)]

\* the suites under test: P2 runs after a P1 of one action; where P2 neither runs nor
\* is reused its actions do not matter
Suites ==
    { Suite(p[1], p[2], p[3]) :
        p \in { q \in CellLists \X ReusedLists \X RunCells :
                    \/ q[3] = <<"Y">> /\ Len(q[1]) = 1
                    \/ q[3] = <<"N">> /\ (HasReuse(q[1]) \/ q[2] = FirstReusedList) } }

(***************************************************************************)
(* fEngine.py                                                              *)
(***************************************************************************)
VARIABLES
    configs,        \* main's configs still to go: what loading each suite will find
    yPlans,         \* the Plans table of the suite
    yActions,       \* the Actions table of the suite
    action_cache,   \* the module's action_cache: cache key -> (result, output, time_taken)
    shared_driver,  \* UIActionHandler._shared_driver is set
    sessions,       \* the number of browser sessions that were started and not quit
    last_response,  \* APIActionHandler._last_response
    error_log,      \* the rows of the suite's _errors.csv
    log_writable,   \* _errors.csv can be opened for appending during this run
    pc,             \* main: "load", "run", "done" (results written), "crashed" or
                    \* "interrupted" (sys.exit(130))
    plan_index,     \* main's position in plans_to_run
    design_index,   \* process_plan's position in design_ids
    action_index,   \* process_plan's position in actions
    results,        \* process_plan's results
    all_results,    \* main's all_results
    results_csv,    \* the rows of the suite's zResults.csv
    frames,         \* the process_action activations that are inside their xReuse loop
    exception,      \* the exception that ended the run, if one did
    history,        \* what happened so far: calls, provider invocations, returns
    applied         \* a function applied on its own: its arguments and its value

vars == <<configs, yPlans, yActions, action_cache, shared_driver, sessions, last_response,
          error_log, log_writable, pc, plan_index, design_index, action_index, results, all_results,
          results_csv, frames, exception, history, applied>>

\* a main that takes the Run cell in either case
ToRunAnyCase(plans) == SelectSeq(plans, LAMBDA r : Lower(r.Run) = <<"y">>)

\* y1_plans[y1_plans['Run'] == 'Y']
ToRun(plans) == SelectSeq(plans, LAMBDA r : r.Run = <<"Y">>)
plans_to_run == ToRun(yPlans)

\* y2_actions[y2_actions['PlanId'] == plan_id]
ActionsOf(plan_id) == SelectSeq(yActions, LAMBDA r : r.PlanId = plan_id)

\* str(plan_row['DesignId']).split(';')
DesignIdsOf(plan_row) == SplitAll(plan_row.DesignId, ";")

\* the substitution loop of process_action over the rows of y3Designs
RECURSIVE ResolveRows(_, _, _, _)
ResolveRows(rows, text, design_id, n) ==
    IF n = 0 THEN text
    ELSE ReSub(rows[n].DataName, rows[n].value[design_id],
               ResolveRows(rows, text, design_id, n - 1))
Resolve(text, design_id) ==
    IF design_id \in DesignColumns
    THEN ResolveRows(yDesigns, text, design_id, Len(yDesigns))
    ELSE text

\* a cache key without the resolved Input
CacheKeyOfStep(plan_id, step_id, input_data) == plan_id \o <<"_">> \o step_id
\* cache_key = f"{plan_id}_{step_id}_{input_data}"
CacheKey(plan_id, step_id, input_data) ==
    plan_id \o <<"_">> \o step_id \o <<"_">> \o input_data

\* cache_key in action_cache
Cached(key) == key \in DOMAIN action_cache

\* a process_action that does not keep the outcome it computed
CacheStoreLost(cache, key, result, output, time_taken) == cache

\* a cache that holds the last outcome only
CacheStoreAlone(cache, key, result, output, time_taken) ==
    [k \in {key} |-> <<result, output, time_taken>>]

\* action_cache[cache_key] = (result, output, time_taken)
CacheStore(cache, key, result, output, time_taken) ==
    [k \in DOMAIN cache \cup {key} |->
        IF k = key THEN <<result, output, time_taken>> ELSE cache[k]]

\* str(action_row.get('Critical', 'n')).strip().lower()
CriticalText(action_row) == Lower(Strip(action_row.Critical))

\* ... in {'y', 'yes', 'true', '1'}
IsCritical(action_row) == CriticalText(action_row) \in { <<"y">>, <<"y", "e", "s">>, <<"t", "r", "u", "e">>, <<"1">> }

\* the dict process_action returns; the one built on a cache hit has no 'Critical'
\* key, written here as the empty text
ResultRow(a, critical, result, output, time_taken) ==
    [DesignId |-> a.design_id, PlanId |-> a.plan_id, StepId |-> a.action_row.StepId,
     ActionType |-> a.action_row.ActionType, ActionName |-> a.action_row.ActionName,
     Input |-> a.input_data, Output |-> output, Expected |-> a.expected,
     Critical |-> critical, Result |-> result, TimeTaken |-> time_taken]

\* Where the run is: process_plan's loop calls process_action, or the innermost
\* process_action activation is in (or past) its loop over the reused actions.
Top == frames[Len(frames)]
InPlanLoop == frames = <<>>
InReuseLoop == frames # <<>> /\ Top.index <= Len(ActionsOf(Top.reused_plan_id))
AfterReuseLoop == frames # <<>> /\ Top.index > Len(ActionsOf(Top.reused_plan_id))
CallDue == pc = "run" /\ (InPlanLoop \/ InReuseLoop)

plan_row == plans_to_run[plan_index]

\* the locals of a process_action call, up to its cache_key
CallArgs(plan_id, design_id, action_row, input_data) ==
    [plan_id |-> plan_id, design_id |-> design_id, action_row |-> action_row,
     input_data |-> input_data, expected |-> Resolve(action_row.Expected, design_id),
     cache_key |-> CacheKey(plan_id, action_row.StepId, input_data)]
CallOf(plan_id, design_id, action_row) ==
    CallArgs(plan_id, design_id, action_row, Resolve(action_row.Input, design_id))

\* an xReuse loop that runs the reused plan for the first design of its own Plans row
reused_args_own_design ==
    CallOf(Top.reused_plan_id,
           DesignIdsOf(yPlans[CHOOSE i \in 1..Len(yPlans) : yPlans[i].PlanId = Top.reused_plan_id])[1],
           ActionsOf(Top.reused_plan_id)[Top.index])
\* reused_args of the innermost xReuse loop: the reused action under the loop's own design_id
reused_args ==
    CallOf(Top.reused_plan_id, Top.design_id, ActionsOf(Top.reused_plan_id)[Top.index])

\* the action row of the process_action call that is due
due_action_row ==
    IF InPlanLoop THEN ActionsOf(plan_row.PlanId)[action_index]
    ELSE ActionsOf(Top.reused_plan_id)[Top.index]

\* the process_action call that is due: process_plan's, or the innermost xReuse loop's
Args ==
    IF InPlanLoop
    THEN CallOf(plan_row.PlanId, DesignIdsOf(plan_row)[design_index],
                ActionsOf(plan_row.PlanId)[action_index])
    ELSE reused_args

\* What the history records: a call of process_action (parent: the call whose xReuse
\* loop makes it, 0 for process_plan), a provider operation that runAction invokes,
\* a runAction that returns, a process_action that returns or raises.
CallEvent(a) ==
    [ev |-> "call", parent |-> IF InPlanLoop THEN 0 ELSE Top.call,
     PlanId |-> a.plan_id, DesignId |-> a.design_id, StepId |-> a.action_row.StepId,
     ActionType |-> a.action_row.ActionType, ActionName |-> a.action_row.ActionName,
     Input |-> a.input_data, critical |-> IsCritical(a.action_row)]
InvokeEvent(call, raised) ==
    [ev |-> "invoke", call |-> call, raised |-> raised, session |-> shared_driver]
RunEvent(call, r) ==
    [ev |-> "run", call |-> call, Result |-> r.vRes, Output |-> r.vOut, TimeTaken |-> r.time_taken]
ReturnEvent(call, hit, row) == [ev |-> "return", call |-> call, hit |-> hit, row |-> row]
RaiseEvent(call, type, msg) == [ev |-> "raise", call |-> call, type |-> type, msg |-> msg]
ThisCall == Len(history) + 1

Front(s) == SubSeq(s, 1, Len(s) - 1)

\* A process_action activation returns row to its caller. The callers are the xReuse
\* loops fs, innermost last: a loop skips the row of an xUI xOpenBrowser, returns a
\* Fail row as its own result, and otherwise goes on to its next action. With no
\* loop left the row is delivered to process_plan.
RECURSIVE Unwind(_, _)
Unwind(fs, row) ==
    IF fs = <<>>
    THEN [frames |-> <<>>, events |-> <<>>, delivered |-> TRUE]
    ELSE LET f == fs[Len(fs)]
             goes_on ==
                [frames |-> [fs EXCEPT ![Len(fs)] = [f EXCEPT !.index = @ + 1]],
                 events |-> <<>>, delivered |-> FALSE]
         IN  IF row.ActionType = xUI /\ row.ActionName = xOpenBrowser THEN goes_on
             ELSE IF row.Result = Fail
                  THEN LET u == Unwind(Front(fs), row)
                       IN  [u EXCEPT !.events = <<ReturnEvent(f.call, FALSE, row)>> \o @]
                  ELSE goes_on

\* a process_plan that runs a plan for the first of its designs only
RECURSIVE NextPointFirstDesignOnly(_, _, _)
NextPointFirstDesignOnly(p, d, a) ==
    IF p > Len(plans_to_run) THEN [p |-> p, d |-> 1, a |-> 1]
    ELSE IF d > 1 THEN NextPointFirstDesignOnly(p + 1, 1, 1)
    ELSE IF a > Len(ActionsOf(plans_to_run[p].PlanId)) THEN NextPointFirstDesignOnly(p, d + 1, 1)
    ELSE [p |-> p, d |-> d, a |-> a]

\* the next process_action call of main's and process_plan's loops from position
\* (p, d, a), or p = Len(plans_to_run) + 1 when the loops are over
RECURSIVE NextPoint(_, _, _)
NextPoint(p, d, a) ==
    IF p > Len(plans_to_run) THEN [p |-> p, d |-> 1, a |-> 1]
    ELSE IF d > Len(DesignIdsOf(plans_to_run[p])) THEN NextPoint(p + 1, 1, 1)
    ELSE IF a > Len(ActionsOf(plans_to_run[p].PlanId)) THEN NextPoint(p, d + 1, 1)
    ELSE [p |-> p, d |-> d, a |-> a]

\* a process_plan that takes the Critical cell as written, without lower()
StopsDesignAsWritten(row, action_row) == row.Result = Fail /\ action_row.Critical = <<"y">>

\* if result['Result'] == 'Fail' and is_critical: break
StopsDesign(row, action_row) == row.Result = Fail /\ IsCritical(action_row)

\* process_plan gets row from process_action: it records it, leaves the design's
\* loop when the row is a Fail and the action is Critical, and goes on; at the end
\* of the plan main extends all_results, and after the last plan it writes them.
PointAfter(row) ==
    IF StopsDesign(row, ActionsOf(plan_row.PlanId)[action_index])
    THEN NextPoint(plan_index, design_index + 1, 1)
    ELSE NextPoint(plan_index, design_index, action_index + 1)
PlanReceives(row) ==
    \E next \in {PointAfter(row)} :
    LET recorded == Append(results, row)
        plan_over == next.p > plan_index
        collected == IF plan_over THEN all_results \o recorded ELSE all_results
        suite_over == next.p > Len(plans_to_run)
    IN  /\ plan_index' = next.p
        /\ design_index' = next.d
        /\ action_index' = next.a
        /\ results' = IF plan_over THEN <<>> ELSE recorded
        /\ all_results' = collected
        /\ results_csv' = IF suite_over THEN collected ELSE results_csv
        /\ pc' = IF suite_over THEN (IF configs = <<>> THEN "done" ELSE "load") ELSE pc

\* plan_results = [r for r in results if r['PlanId'] == plan_id]
plan_results(rs, plan_id) == SelectSeq(rs, LAMBDA r : r.PlanId = plan_id)
\* passed_actions and total_actions of process_plan
passed_actions(rs, plan_id) == Len(SelectSeq(plan_results(rs, plan_id), LAMBDA r : r.Result = Pass))
total_actions(rs, plan_id) == Len(plan_results(rs, plan_id))

\* process_plan's report at the end of its plan, when row was its last: "completed
\* successfully" when passed_actions == total_actions, "completed with issues" otherwise
ReportEvent(rs, plan_id) ==
    [ev |-> "report", PlanId |-> plan_id,
     passed_actions |-> passed_actions(rs, plan_id),
     total_actions |-> total_actions(rs, plan_id),
     successfully |-> passed_actions(rs, plan_id) = total_actions(rs, plan_id)]
PlanReport(row) ==
    IF PointAfter(row).p > plan_index
    THEN <<ReportEvent(Append(results, row), plan_row.PlanId)>>
    ELSE <<>>

\* process_action call returns row, out of the xReuse loops fs
Returns_(fs, call, hit, row, events) ==
    \E u \in {Unwind(fs, row)} :
        /\ frames' = u.frames
        /\ history' = history \o events \o <<ReturnEvent(call, hit, row)>> \o u.events
                        \o (IF u.delivered THEN PlanReport(row) ELSE <<>>)
        /\ IF u.delivered
           THEN PlanReceives(row)
           ELSE UNCHANGED <<pc, plan_index, design_index, action_index, results,
                            all_results, results_csv>>
        /\ exception' = exception

\* an exception leaves process_action, process_plan and main
Crashes(call, type, msg, events) ==
    /\ pc' = "crashed"
    /\ exception' = [type |-> type, msg |-> msg]
    /\ history' = history \o events \o <<RaiseEvent(call, type, msg)>>
    /\ UNCHANGED <<plan_index, design_index, action_index, results, all_results,
                   results_csv, frames>>

\* a cache hit that reports no time, the hit having taken none
CachedRowUntimed(a, entry) == ResultRow(a, <<>>, entry[1], entry[2], 0)

\* return {... 'Result': cached_result, 'Output': cached_output, 'TimeTaken': cached_time}
CachedRow(a, entry) == ResultRow(a, <<>>, entry[1], entry[2], entry[3])

\* process_action finds its cache key in action_cache
CacheHit ==
    /\ CallDue
    /\ \E a \in {Args} :
           /\ Cached(a.cache_key)
           /\ Returns_(frames, ThisCall, TRUE, CachedRow(a, action_cache[a.cache_key]),
                       <<CallEvent(a)>>)
    /\ UNCHANGED <<configs, applied, yPlans, yActions, log_writable, action_cache, shared_driver, sessions, last_response, error_log>>

\* The answers of the world that runAction comes to ask for: the driver's in an
\* xUI operation that calls it, save_screenshot's after a failed xUI action with a
\* session, the file system's for an output that goes to a file. An answer that is
\* not asked for is fixed. The error log is writable or not for the whole run.
AsksDriver(aT, aName, driver) ==
    /\ aT = xUI
    /\ \/ aName = xOpenBrowser /\ ~driver
       \/ aName \in {xGetTitle, xCloseBrowser} /\ driver
Asked(aT, e, t) ==
    [driver : {e.driver},
     response : {e.response},
     last_response : {e.last_response},
     screenshot : IF TakesScreenshot(aT, t) THEN ScreenshotAnswers ELSE {"True"},
     file_ok : IF NeedsFile(BeforeStacktrace(t.vOut)) THEN BOOLEAN ELSE {TRUE},
     log_ok : {log_writable},
     time_taken : 1..MaxDuration]
EnvOf(aT, aName, aIn, aExpected, handler_given, driver) ==
    IF ~HasHandler(aT, handler_given)
    THEN { [driver |-> NoDriverAnswer, response |-> NoResponseAnswer,
            last_response |-> last_response, screenshot |-> "True", file_ok |-> TRUE,
            log_ok |-> log_writable, time_taken |-> 1] }
    ELSE UNION { Asked(aT, e, TryAction(aT, aName, aIn, aExpected, driver, e)) :
                 e \in [driver : IF ~AsksDriver(aT, aName, driver) THEN {NoDriverAnswer}
                                 ELSE IF aName = xOpenBrowser THEN OpenAnswers ELSE DriverAnswers,
                        response : IF aT = xAPI /\ aName = xGet
                                   THEN ResponseAnswers ELSE {NoResponseAnswer},
                        last_response : {last_response}] }

\* the sessions a runAction that left r started (webdriver.Chrome() and the like
\* returned: the session is the shared one afterwards, or only the handler's own)
\* and quit (xCloseBrowser's quit() returned)
Started(driver, r) == IF ~driver /\ (r.driver \/ r.own) THEN 1 ELSE 0
Quit(driver, r) == IF driver /\ ~r.driver THEN 1 ELSE 0

\* the provider operation that runAction invoked, if it invoked one
Invoked(call, r) == IF r.invoked THEN <<InvokeEvent(call, r.op_raised)>> ELSE <<>>

\* result, output, time_taken = xActions.runAction(...) gave r, and the rest of
\* process_action: the exception goes up, or the outcome is cached and returned
Finishes(a, call, fs, events, r) ==
    /\ shared_driver' = r.driver
    /\ sessions' = sessions + Started(shared_driver, r) - Quit(shared_driver, r)
    /\ IF r.escaped
       THEN /\ Crashes(call, r.type, r.msg, events \o Invoked(call, r))
            /\ UNCHANGED <<action_cache, error_log>>
       ELSE /\ action_cache' = CacheStore(action_cache, a.cache_key, r.vRes, r.vOut, r.time_taken)
            /\ error_log' = error_log \o r.logged
            /\ Returns_(fs, call, FALSE,
                        ResultRow(a, CriticalText(a.action_row), r.vRes, r.vOut, r.time_taken),
                        events \o Invoked(call, r) \o <<RunEvent(call, r)>>)

\* process_action calls runAction for the action of a, with its ui_handler for an
\* xUI action and with no handler otherwise
Runs(a, aT, aName, call, fs, events) ==
    \E env \in EnvOf(aT, aName, a.input_data, a.expected, aT = xUI, shared_driver) :
        /\ last_response' = LastResponse(aT, aName, a.input_data, env)
        /\ \E r \in {RunAction(aT, aName, a.input_data, a.expected, a.plan_id, a.design_id,
                               a.action_row.StepId, aT = xUI, shared_driver, env)} :
               Finishes(a, call, fs, events, r)

\* process_action runs an action that is not an xReuse through runAction
Execute ==
    /\ CallDue
    /\ due_action_row.ActionType # xReuse
    /\ \E a \in {Args} :
           /\ ~Cached(a.cache_key)
           /\ Runs(a, a.action_row.ActionType, a.action_row.ActionName, ThisCall, frames,
                   <<CallEvent(a)>>)
    /\ UNCHANGED <<configs, applied, yPlans, yActions, log_writable>>

\* y1_plans[y1_plans['PlanId'] == reused_plan_id] is not empty
PlanExists(reused_plan_id) == \E i \in 1..Len(yPlans) : yPlans[i].PlanId = reused_plan_id

\* process_action finds no plan for an xReuse action
ReuseNotFound ==
    /\ CallDue
    /\ due_action_row.ActionType = xReuse
    /\ ~PlanExists(due_action_row.ActionName)
    /\ \E a \in {Args} :
           /\ ~Cached(a.cache_key)
           /\ Crashes(ThisCall, "ValueError",
                      <<"R", "e", "u", "s", "e", "d", " ", "p", "l", "a", "n", " ">> \o a.action_row.ActionName \o <<" ", "n", "o", "t", " ", "f", "o", "u", "n", "d">>,
                      <<CallEvent(a)>>)
    /\ UNCHANGED <<configs, applied, yPlans, yActions, log_writable, action_cache, shared_driver, sessions, last_response, error_log>>

\* process_action enters the loop over the actions of the reused plan
ReuseEnter ==
    /\ CallDue
    /\ due_action_row.ActionType = xReuse
    /\ PlanExists(due_action_row.ActionName)
    /\ Len(frames) < RecursionLimit
    /\ \E a \in {Args} :
           /\ ~Cached(a.cache_key)
           /\ frames' = Append(frames,
                   [call |-> ThisCall, plan_id |-> a.plan_id, design_id |-> a.design_id,
                    action_row |-> a.action_row, input_data |-> a.input_data,
                    expected |-> a.expected, cache_key |-> a.cache_key,
                    reused_plan_id |-> a.action_row.ActionName, index |-> 1])
           /\ history' = Append(history, CallEvent(a))
    /\ UNCHANGED <<configs, applied, yPlans, yActions, log_writable, action_cache, shared_driver, sessions, last_response, error_log, pc, plan_index,
                   design_index, action_index, results, all_results, results_csv, exception>>

\* the interpreter's stack is full when process_action is to call itself again
StackOverflow ==
    /\ CallDue
    /\ due_action_row.ActionType = xReuse
    /\ PlanExists(due_action_row.ActionName)
    /\ Len(frames) >= RecursionLimit
    /\ \E a \in {Args} :
           /\ ~Cached(a.cache_key)
           /\ Crashes(ThisCall, "RecursionError", <<"m", "a", "x", "i", "m", "u", "m", " ", "r", "e", "c", "u", "r", "s", "i", "o", "n", " ", "d", "e", "p", "t", "h", " ", "e", "x", "c", "e", "e", "d", "e", "d">>,
                      <<CallEvent(a)>>)
    /\ UNCHANGED <<configs, applied, yPlans, yActions, log_writable, action_cache, shared_driver, sessions, last_response, error_log>>

\* the loop over the reused actions is over: process_action runs the xReuse action
\* itself through runAction
ReuseFinish ==
    /\ pc = "run"
    /\ AfterReuseLoop
    /\ Runs(Top, Top.action_row.ActionType, Top.action_row.ActionName, Top.call,
            Front(frames), <<>>)
    /\ UNCHANGED <<configs, applied, yPlans, yActions, log_writable>>

\* main's summary of a suite, from df = pd.DataFrame(all_results) as written to
\* zResults.csv: df.groupby(['DesignId', 'PlanId']).first() keeps, for each
\* (DesignId, PlanId) that occurs in a row, the first row's Result
SummaryGroups == { <<results_csv[i].DesignId, results_csv[i].PlanId>> : i \in 1..Len(results_csv) }
FirstResult(g) ==
    LET i == Least({ k \in 1..Len(results_csv) :
                        <<results_csv[k].DesignId, results_csv[k].PlanId>> = g })
    IN  results_csv[i].Result
total_plans == Len(plans_to_run)
passed_plans == Cardinality({ g \in SummaryGroups : FirstResult(g) = Pass })
failed_plans == total_plans - passed_plans

\* What main finds when it comes to a config of its list: no config file
\* ("config"), a config whose Plans, Actions or Designs file is not there ("yPlans",
\* "yActions", "yDesigns"; the suite has a plan to run), the suite whose tables
\* are yPlans and yActions ("suite"), or a suite with the same tables but for the
\* Run cells of its Plans, none of which is 'Y' ("norun").
MissingFiles == {"yPlans", "yActions", "yDesigns"}
ConfigLists ==
    {<<"suite">>} \cup {<<k, "suite">> : k \in {"config", "norun"} \cup MissingFiles}

\* the Plans table of the suite that marks no plan with 'Y'
NoRunPlans ==
    [i \in DOMAIN yPlans |-> [yPlans[i] EXCEPT !.Run = IF i = 1 THEN <<"N">> ELSE <<"y">>]]
\* y1_plans of a config of main's list
PlansOf(config) == IF config = "norun" THEN NoRunPlans ELSE yPlans

\* main's loop over configs goes on, or main is over
AfterConfig == IF Tail(configs) = <<>> THEN "done" ELSE "load"

\* nothing was applied on its own
NoApplication == [fn |-> "", args |-> <<>>, value |-> <<>>]

\* the part of the state that belongs to the suite main is running
SuiteUnchanged ==
    UNCHANGED <<yPlans, yActions, action_cache, shared_driver, sessions, last_response, error_log, log_writable,
                plan_index, design_index, action_index, results, all_results, results_csv,
                frames, applied>>

\* load_config raises FileNotFoundError: main reports it and continues with the
\* next config
ConfigMissing ==
    /\ pc = "load"
    /\ Head(configs) = "config"
    /\ configs' = Tail(configs)
    /\ pc' = AfterConfig
    /\ history' = Append(history, [ev |-> "skip", config |-> Head(configs)])
    /\ UNCHANGED exception
    /\ SuiteUnchanged

\* the suite has no plan with Run = 'Y': main warns and continues with the next
\* config
SuiteSkipped ==
    /\ pc = "load"
    /\ Head(configs) \in {"suite", "norun"}
    /\ ToRun(PlansOf(Head(configs))) = <<>>
    /\ configs' = Tail(configs)
    /\ pc' = AfterConfig
    /\ history' = Append(history, [ev |-> "skip", config |-> Head(configs)])
    /\ UNCHANGED exception
    /\ SuiteUnchanged

\* pd.read_csv raises FileNotFoundError in load_csv, called by main for the Plans,
\* by process_plan for the Actions and by process_action for the Designs: nothing
\* catches it
TableMissing ==
    /\ pc = "load"
    /\ Head(configs) \in MissingFiles
    /\ configs' = Tail(configs)
    /\ pc' = "crashed"
    /\ exception' = [type |-> "FileNotFoundError", msg |-> <<"N", "o", " ", "s", "u", "c", "h", " ", "f", "i", "l", "e", " ", "o", "r", " ", "d", "i", "r", "e", "c", "t", "o", "r", "y">>]
    /\ history' = Append(history, RaiseEvent(0, "FileNotFoundError", <<"N", "o", " ", "s", "u", "c", "h", " ", "f", "i", "l", "e", " ", "o", "r", " ", "d", "i", "r", "e", "c", "t", "o", "r", "y">>))
    /\ SuiteUnchanged

\* the suite's config and tables load: process_plan is about to call process_action
\* for the first action of the first plan to run
SuiteLoaded ==
    /\ pc = "load"
    /\ Head(configs) \in {"suite", "norun"}
    /\ ToRun(PlansOf(Head(configs))) # <<>>
    /\ configs' = Tail(configs)
    /\ pc' = "run"
    /\ plan_index' = 1
    /\ design_index' = 1
    /\ action_index' = 1
    /\ results' = <<>>
    /\ all_results' = <<>>
    /\ history' = Append(history, [ev |-> "suite", config |-> Head(configs)])
    /\ UNCHANGED <<exception, yPlans, yActions, action_cache, shared_driver, sessions,
                   last_response, error_log, log_writable, results_csv, frames, applied>>

\* KeyboardInterrupt is raised somewhere in main(): no handler of main, process_plan,
\* process_action or runAction takes it (they name Exception or narrower classes);
\* the __main__ block quits the shared driver if there is one, whatever quit()
\* raises, and calls sys.exit(130)
Interrupt ==
    /\ pc \in {"load", "run"}
    /\ pc' = "interrupted"
    /\ exception' = [type |-> "KeyboardInterrupt", msg |-> <<>>]
    /\ \E quit_ok \in (IF shared_driver THEN BOOLEAN ELSE {FALSE}) :
         /\ sessions' = IF quit_ok THEN sessions - 1 ELSE sessions
         /\ history' = Append(history, [ev |-> "interrupt", quit |-> shared_driver])
    /\ UNCHANGED <<configs, yPlans, yActions, action_cache, shared_driver, last_response, error_log, log_writable,
                   plan_index, design_index, action_index, results, all_results, results_csv,
                   frames, applied>>

\* main() has cleared action_cache and has its list of configs, one of lists; the
\* tables of the suite are yPlans and yActions
MainStartsWith(suites, lists) ==
    /\ \E s \in suites : yPlans = s.plans /\ yActions = s.actions
    /\ configs \in IF Len(ActionsOf(P1)) = 1 /\ Len(plans_to_run) = 1
                   THEN lists ELSE {<<"suite">>}
    /\ action_cache = <<>>
    /\ shared_driver = FALSE
    /\ sessions = 0
    /\ last_response = NoResponse
    /\ error_log = <<>>
    /\ log_writable \in BOOLEAN
    /\ pc = "load"
    /\ plan_index = 1
    /\ design_index = 1
    /\ action_index = 1
    /\ results = <<>>
    /\ all_results = <<>>
    /\ results_csv = <<>>
    /\ frames = <<>>
    /\ exception = [type |-> "", msg |-> <<>>]
    /\ history = <<>>
    /\ applied = NoApplication

MainStarts(lists) == MainStartsWith(Suites, lists)

Init == MainStarts(ConfigLists)

Next ==
    \/ ConfigMissing
    \/ TableMissing
    \/ SuiteSkipped
    \/ SuiteLoaded
    \/ CacheHit
    \/ Execute
    \/ ReuseNotFound
    \/ ReuseEnter
    \/ StackOverflow
    \/ ReuseFinish
    \/ Interrupt

Spec == Init /\ [][Next]_vars

\* main with a list of configs in which a suite is followed by another config: the
\* same suite once more, or the suite with no plan to run
SuiteLists == ConfigLists \cup {<<"suite", "suite">>, <<"suite", "norun">>, <<"norun", "norun">>}
SuitesInit == MainStarts(SuiteLists)
SuitesSpec == SuitesInit /\ [][Next]_vars

\* main with the suites above and the suites whose plan is one of SessionLists
SessionSuites == Suites \cup { Suite(l, FirstReusedList, <<"N">>) : l \in SessionLists }
SessionsInit == MainStartsWith(SessionSuites, ConfigLists)
SessionsSpec == SessionsInit /\ [][Next]_vars

(***************************************************************************)
(* The Pass/Fail rule of runAction on its own: Expected and the output of  *)
(* an operation are drawn from texts of these kinds, and the rule is       *)
(* applied to them.                                                        *)
(***************************************************************************)
\* texts with seven decimals, and shorter ones: numbers in several spellings, texts
\* that float() rejects, the spellings of an absent Expected
LongTexts == { <<"3", ".", "0", "0", "0", "0", "0", "0", "1">>, <<"3", ".", "0", "0", "0", "0", "0", "0", "9">>, <<"3", ".", "0", "0", "0", "0", "0", "1", "1">>, <<"2", ".", "9", "9", "9", "9", "9", "9", "5">> }
ShortTexts ==
    { <<"3", ".", "0">>, <<"3">>, <<" ", "3">>, <<"+", "3">>, <<"3", ".">>, <<"3", ".", "1">>, <<"-", "3">>, <<"0">>, <<"-", "0", ".", "0">>,
      <<"3", ".", "0", ".", "0">>, <<"T", "r", "u", "e">>, <<"t", "r", "u", "e">>, <<"H", "o", "m", "e">>, <<"-">>, <<"n", "a", "n">>, <<"N", "o", "n", "e">>, <<>> }
VerdictArgs ==
    (ShortTexts \X ShortTexts) \cup (LongTexts \X ShortTexts) \cup (ShortTexts \X LongTexts)

VerdictInit ==
    /\ applied \in { [fn |-> "Verdict", args |-> x, value |-> <<>>] : x \in VerdictArgs }
    /\ configs = <<>>
    /\ yPlans = <<>>
    /\ yActions = <<>>
    /\ action_cache = <<>>
    /\ shared_driver = FALSE
    /\ sessions = 0
    /\ last_response = NoResponse
    /\ error_log = <<>>
    /\ log_writable = TRUE
    /\ pc = "done"
    /\ plan_index = 1
    /\ design_index = 1
    /\ action_index = 1
    /\ results = <<>>
    /\ all_results = <<>>
    /\ results_csv = <<>>
    /\ frames = <<>>
    /\ exception = [type |-> "", msg |-> <<>>]
    /\ history = <<>>

\* runAction judges the output applied.args[2] against the Expected applied.args[1]
ApplyVerdict ==
    /\ applied.fn = "Verdict"
    /\ applied.value = <<>>
    /\ applied' = [applied EXCEPT !.value = Verdict(applied.args[1], applied.args[2])]
    /\ UNCHANGED <<configs, yPlans, yActions, action_cache, shared_driver, sessions, last_response,
                   error_log, log_writable, pc, plan_index, design_index, action_index, results,
                   all_results, results_csv, frames, exception, history>>

VerdictNext == ApplyVerdict

VerdictSpec == VerdictInit /\ [][VerdictNext]_vars

(***************************************************************************)
(* The substitution loop of process_action on its own: a Designs table, a  *)
(* DesignId and the Input and Expected cells of an action are drawn from   *)
(* the sets below, and the loop is run on them, twice.                     *)
(***************************************************************************)
\* the DataName of a row whose DataName cell is empty: pandas reads it as the float
\* nan, which re.escape() does not take
NaNCell == <<"float('nan')">>

DesignRow(name, v1, v2) ==
    [DataName |-> name, value |-> [d \in {D1, D2} |-> IF d = D1 THEN v1 ELSE v2]]
\* Designs tables with columns D1 and D2: the one of the suites; one where the value
\* of a row is the DataName of a later row; one whose DataName begins and ends with
\* a character that is not a word character; one with a row of empty cells
DesignTables ==
    { yDesigns,
      << DesignRow(<<"u">>, <<"v">>, <<"b">>), DesignRow(<<"v">>, <<"c">>, <<"c">>) >>,
      << DesignRow(<<"{", "u", "}">>, <<"a">>, <<"b">>) >>,
      << DesignRow(<<"u">>, <<"a">>, <<"b">>), DesignRow(NaNCell, <<"n", "a", "n">>, <<"n", "a", "n">>) >> }
D3 == <<"D", "3">>
DesignIds == {D1, D2, D3}
CellTexts ==
    { <<"u">>, <<"u", ";", "v">>, <<"x", "u">>, <<"u", "_", "1">>, <<"u", "1">>, <<"a", ".", "u", "+", "u">>, <<"{", "u", "}">>, <<"x", "{", "u", "}", "y">>,
      <<"v", " ", "v">>, <<"U">>, <<"n", "a", "n">>, <<>> }

\* the loop over y3_designs.columns and rows for one text: the text it ends with
ResolveWith(rows, text, design_id) ==
    IF design_id \in DesignColumns THEN ResolveRows(rows, text, design_id, Len(rows)) ELSE text
\* re.escape(data_name) raises TypeError for a DataName that is not a string
ResolveRaises(rows, design_id) ==
    /\ design_id \in DesignColumns
    /\ \E n \in 1..Len(rows) : rows[n].DataName = NaNCell
\* what the loop leaves in input_data and expected, or the exception that leaves it
Resolution(rows, design_id, input_data, expected) ==
    IF ResolveRaises(rows, design_id)
    THEN [raised |-> TRUE, type |-> "TypeError", input_data |-> input_data, expected |-> expected]
    ELSE [raised |-> FALSE, type |-> "",
          input_data |-> ResolveWith(rows, input_data, design_id),
          expected |-> ResolveWith(rows, expected, design_id)]

ResolveInit ==
    /\ applied \in { [fn |-> "Resolve", args |-> x, value |-> <<>>] :
                       x \in DesignTables \X DesignIds \X CellTexts \X CellTexts }
    /\ configs = <<>>
    /\ yPlans = <<>>
    /\ yActions = <<>>
    /\ action_cache = <<>>
    /\ shared_driver = FALSE
    /\ sessions = 0
    /\ last_response = NoResponse
    /\ error_log = <<>>
    /\ log_writable = TRUE
    /\ pc = "done"
    /\ plan_index = 1
    /\ design_index = 1
    /\ action_index = 1
    /\ results = <<>>
    /\ all_results = <<>>
    /\ results_csv = <<>>
    /\ frames = <<>>
    /\ exception = [type |-> "", msg |-> <<>>]
    /\ history = <<>>

\* process_action resolves the cells applied.args[3] and applied.args[4] under the
\* design applied.args[2] of the table applied.args[1]
ApplyResolve ==
    /\ applied.fn = "Resolve"
    /\ Len(applied.value) < 2
    /\ applied' = [applied EXCEPT !.value =
                     Append(@, Resolution(applied.args[1], applied.args[2],
                                          applied.args[3], applied.args[4]))]
    /\ UNCHANGED <<configs, yPlans, yActions, action_cache, shared_driver, sessions, last_response,
                   error_log, log_writable, pc, plan_index, design_index, action_index, results,
                   all_results, results_csv, frames, exception, history>>

ResolveNext == ApplyResolve

ResolveSpec == ResolveInit /\ [][ResolveNext]_vars

(***************************************************************************)
(* UIActionHandler.find_element                                            *)
(***************************************************************************)
\* def find_element(self, locator, clickable=False, retries=2): no caller passes
\* retries
retries == 2
\* a find_element that tries once more than range(retries + 1)
LastAttemptOneMore(attempt) == attempt >= retries + 1
\* attempt < retries is false: the except clause raises last_exception
LastAttempt(attempt) == attempt >= retries

\* what WebDriverWait(...).until(condition) does within self._timeout: it returns the
\* element, raises one of the two exceptions find_element catches, or raises another
\* error of the driver
WaitOutcomes == {"element", "TimeoutException", "NoSuchElementException", "WebDriverException"}
CaughtByFind == {"TimeoutException", "NoSuchElementException"}

\* the locators under test: None, blank, and three that _detect_selector accepts
Locators == { <<>>, <<" ">>, <<"#", "a">>, <<"/", "/", "a">>, <<"i", "d", "=", "=", "a">> }

\* the call find_element(locator, clickable) of a handler with or without a driver
FindCall(driver, locator, clickable) ==
    [fn |-> "find_element", args |-> <<driver, locator, clickable>>,
     value |-> [pc |-> "check", attempt |-> 0, last_exception |-> "", trace |-> <<>>]]

FindInit ==
    /\ applied \in { FindCall(x[1], x[2], x[3]) : x \in BOOLEAN \X Locators \X BOOLEAN }
    /\ configs = <<>>
    /\ yPlans = <<>>
    /\ yActions = <<>>
    /\ action_cache = <<>>
    /\ shared_driver = FALSE
    /\ sessions = 0
    /\ last_response = NoResponse
    /\ error_log = <<>>
    /\ log_writable = TRUE
    /\ pc = "done"
    /\ plan_index = 1
    /\ design_index = 1
    /\ action_index = 1
    /\ results = <<>>
    /\ all_results = <<>>
    /\ results_csv = <<>>
    /\ frames = <<>>
    /\ exception = [type |-> "", msg |-> <<>>]
    /\ history = <<>>

FindUnchanged ==
    UNCHANGED <<configs, yPlans, yActions, action_cache, shared_driver, sessions, last_response,
                error_log, log_writable, pc, plan_index, design_index, action_index, results,
                all_results, results_csv, frames, exception, history>>

\* find_element raises type
FindRaises(v, type) == [v EXCEPT !.pc = "raised", !.last_exception = type]

\* the checks before the loop: if not self._driver, if not locator or
\* locator.strip() == ""
FindChecks ==
    /\ applied.fn = "find_element"
    /\ applied.value.pc = "check"
    /\ applied' = [applied EXCEPT !.value =
            IF ~applied.args[1] THEN FindRaises(@, "WebDriverException")
            ELSE IF Strip(applied.args[2]) = <<>> THEN FindRaises(@, "ValueError")
            ELSE [@ EXCEPT !.pc = "wait"]]
    /\ FindUnchanged

\* one pass of the loop up to its sleep: the wait returns the element, or raises; a
\* caught exception is raised again after the last attempt
FindWaits ==
    /\ applied.fn = "find_element"
    /\ applied.value.pc = "wait"
    /\ \E outcome \in WaitOutcomes :
         applied' = [applied EXCEPT !.value =
            LET tried == [@ EXCEPT !.trace = Append(@, [ev |-> "wait", attempt |-> applied.value.attempt,
                                                        outcome |-> outcome])]
            IN  IF outcome = "element" THEN [tried EXCEPT !.pc = "returned"]
                ELSE IF outcome \notin CaughtByFind THEN FindRaises(tried, outcome)
                ELSE IF LastAttempt(applied.value.attempt) THEN FindRaises(tried, outcome)
                ELSE [tried EXCEPT !.pc = "sleep", !.last_exception = outcome]]
    /\ FindUnchanged

\* time.sleep(1); continue
FindSleeps ==
    /\ applied.fn = "find_element"
    /\ applied.value.pc = "sleep"
    /\ applied' = [applied EXCEPT !.value =
            [@ EXCEPT !.pc = "wait", !.attempt = @ + 1,
                      !.trace = Append(@, [ev |-> "sleep", attempt |-> applied.value.attempt,
                                           outcome |-> "1"])]]
    /\ FindUnchanged

FindNext == FindChecks \/ FindWaits \/ FindSleeps

\* a wait ends within self._timeout and a sleep within its second: find_element
\* goes on as long as it has a step to take
FindSpec == FindInit /\ [][FindNext]_vars /\ WF_vars(FindNext)

(***************************************************************************)
(* The cache key of process_action                                         *)
(***************************************************************************)
MaxKeyCalls == 2

\* the PlanId, StepId and resolved Input cells under test, with and without '_'
KeyPlanIds == { <<"P", "1">>, <<"P", "1", "_", "1">> }
KeyStepIds == { <<"1">>, <<"1", "_", "2">>, <<"2">> }
KeyInputs == { <<"x">>, <<"2", "_", "x">>, <<"1", "_", "2", "_", "x">> }
KeyTriples == KeyPlanIds \X KeyStepIds \X KeyInputs

\* what applied.value keeps of a call: its triple, its cache_key, and whether the
\* key was in action_cache
KeyCall(t, hit) == [triple |-> t, key |-> CacheKey(t[1], t[2], t[3]), hit |-> hit]

KeyInit ==
    /\ applied = [fn |-> "cache_key", args |-> <<>>, value |-> <<>>]
    /\ configs = <<>>
    /\ yPlans = <<>>
    /\ yActions = <<>>
    /\ action_cache = <<>>
    /\ shared_driver = FALSE
    /\ sessions = 0
    /\ last_response = NoResponse
    /\ error_log = <<>>
    /\ log_writable = TRUE
    /\ pc = "done"
    /\ plan_index = 1
    /\ design_index = 1
    /\ action_index = 1
    /\ results = <<>>
    /\ all_results = <<>>
    /\ results_csv = <<>>
    /\ frames = <<>>
    /\ exception = [type |-> "", msg |-> <<>>]
    /\ history = <<>>

KeyUnchanged ==
    UNCHANGED <<configs, yPlans, yActions, shared_driver, sessions, last_response,
                error_log, log_writable, pc, plan_index, design_index, action_index, results,
                all_results, results_csv, frames, exception, history>>

\* if cache_key in action_cache: the call returns the stored outcome
KeyHit ==
    /\ applied.fn = "cache_key"
    /\ Len(applied.value) < MaxKeyCalls
    /\ \E t \in KeyTriples :
         /\ Cached(CacheKey(t[1], t[2], t[3]))
         /\ applied' = [applied EXCEPT !.args = t, !.value = Append(@, KeyCall(t, TRUE))]
    /\ UNCHANGED action_cache
    /\ KeyUnchanged

\* the key is not in action_cache: the action runs and its outcome is stored
KeyStore ==
    /\ applied.fn = "cache_key"
    /\ Len(applied.value) < MaxKeyCalls
    /\ \E t \in KeyTriples : \E result \in {Pass, Fail} :
         /\ ~Cached(CacheKey(t[1], t[2], t[3]))
         /\ action_cache' = CacheStore(action_cache, CacheKey(t[1], t[2], t[3]), result, t[3], 1)
         /\ applied' = [applied EXCEPT !.args = t, !.value = Append(@, KeyCall(t, FALSE))]
    /\ KeyUnchanged

KeyNext == KeyHit \/ KeyStore

KeySpec == KeyInit /\ [][KeyNext]_vars

(***************************************************************************)
(* Reading the history.                                                    *)
(***************************************************************************)
\* the positions of the events of one kind
Events(kind) == {i \in 1..Len(history) : history[i].ev = kind}

\* the calls process_plan makes
TopCalls == {c \in Events("call") : history[c].parent = 0}

\* the calls the xReuse loop of call p makes
ReusedCalls(p) == {c \in Events("call") : history[c].parent = p}

\* calls c and d are for the same PlanId, StepId and resolved Input
SameStep(c, d) ==
    /\ history[c].PlanId = history[d].PlanId
    /\ history[c].StepId = history[d].StepId
    /\ history[c].Input = history[d].Input

\* the returns of call c, and whether it returned a row with this Result
ReturnsOf(c) == {r \in Events("return") : history[r].call = c}
Returned(c, result) == \E r \in ReturnsOf(c) : history[r].row.Result = result

\* the exceptions that left call c
RaisesOf(c) == {e \in Events("raise") : history[e].call = c}

\* the rows process_plan got back, in order
TopRows ==
    LET rs == SelectSeq(history, LAMBDA e : e.ev = "return" /\ history[e.call].parent = 0)
    IN  [k \in 1..Len(rs) |-> rs[k].row]

\* the result stream: the rows main and process_plan hold
Recorded == all_results \o results

\* the calls whose xReuse loops call c is inside of
RECURSIVE Ancestors(_)
Ancestors(c) ==
    IF history[c].parent = 0 THEN {}
    ELSE {history[c].parent} \cup Ancestors(history[c].parent)

(***************************************************************************)
(* Properties.                                                             *)
(***************************************************************************)
\* C1: once a Critical action of a plan returned Fail for a design, process_plan
\* makes no later call for that plan and design, and the rows recorded are exactly
\* the rows of the calls it made, so the pair's rows end with that Fail row.
C1_CriticalFailEndsDesign ==
    /\ \A i \in TopCalls : \A j \in TopCalls :
         ( /\ i < j
           /\ history[i].PlanId = history[j].PlanId
           /\ history[i].DesignId = history[j].DesignId )
         => ~(history[i].critical /\ Returned(i, Fail))
    /\ Recorded = TopRows

\* a finished run of a plan of three actions whose second is Critical and failed for
\* a design: two rows for that design, the third action never called
C1_Witness ==
    /\ pc = "done"
    /\ \E i \in TopCalls :
         /\ history[i].critical
         /\ Returned(i, Fail)
         /\ history[i].StepId = StepText(2)
         /\ Len(ActionsOf(history[i].PlanId)) = 3
         /\ Len(SelectSeq(results_csv, LAMBDA r : r.DesignId = history[i].DesignId)) = 2

\* C2: the row of a cache hit has the Result, Output and TimeTaken that runAction
\* gave when the step with that PlanId, StepId and resolved Input was executed.
C2_HitReproducesOriginal ==
    \A r \in Events("return") :
        history[r].hit =>
            /\ \E q \in Events("run") : q < r /\ SameStep(history[q].call, history[r].call)
            /\ \A q \in Events("run") :
                 (q < r /\ SameStep(history[q].call, history[r].call)) =>
                     /\ history[r].row.Result = history[q].Result
                     /\ history[r].row.Output = history[q].Output
                     /\ history[r].row.TimeTaken = history[q].TimeTaken

\* a run with a cache hit on a Pass outcome and a cache hit on a Fail outcome
C2_Witness ==
    /\ \E r \in Events("return") : history[r].hit /\ history[r].row.Result = Pass
    /\ \E r \in Events("return") : history[r].hit /\ history[r].row.Result = Fail

\* C3: no two provider invocations of a run are for the same PlanId, StepId and
\* resolved Input.
C3_InvokedOncePerKey ==
    \A i \in Events("invoke") : \A j \in Events("invoke") :
        i < j => ~SameStep(history[i].call, history[j].call)

\* a step whose operation was invoked is reached again, by a later design and
\* through an xReuse expansion
C3_Witness ==
    \E i \in Events("invoke") : \E c \in Events("call") : \E d \in Events("call") :
        /\ history[i].call < c /\ c < d
        /\ SameStep(history[i].call, c) /\ SameStep(history[i].call, d)
        /\ history[d].parent # 0

\* C4: once a call of an xReuse loop returned Fail, the loop makes no later call,
\* and the xReuse call returns a Fail row.
C4_ReusedFailEndsExpansion ==
    \A r \in Events("return") :
        LET p == history[history[r].call].parent
        IN  (p # 0 /\ history[r].row.Result = Fail) =>
                /\ \A c \in ReusedCalls(p) : c < r
                /\ Returned(p, Fail)

\* a reused xUI xOpenBrowser returned Fail and the loop called its next action
C4_Witness ==
    \E r \in Events("return") : \E c \in Events("call") :
        /\ history[r].row.Result = Fail
        /\ history[r].row.ActionName = xOpenBrowser
        /\ history[history[r].call].parent # 0
        /\ history[c].parent = history[history[r].call].parent
        /\ c > r

\* the Fail rows of the result stream for the step of call p itself
RowsForStep(p) ==
    SelectSeq(Recorded, LAMBDA row :
        /\ row.Result = Fail
        /\ row.PlanId = history[p].PlanId
        /\ row.DesignId = history[p].DesignId
        /\ row.StepId = history[p].StepId
        /\ row.ActionType = history[p].ActionType
        /\ row.ActionName = history[p].ActionName)

\* C5: when an xReuse step of a plan has returned after one of its reused actions
\* failed, the result stream holds exactly one Fail row with the PlanId, StepId,
\* ActionType and ActionName of that step.
C5_OneFailRowForReuseStep ==
    \A p \in TopCalls :
        ( /\ history[p].ActionType = xReuse
          /\ ReturnsOf(p) # {}
          /\ \E c \in ReusedCalls(p) : Returned(c, Fail) )
        => Len(RowsForStep(p)) = 1

\* process_plan got, for an xReuse step, the row of the reused action that failed
C5_Witness ==
    \E p \in TopCalls : \E r \in ReturnsOf(p) :
        /\ history[p].ActionType = xReuse
        /\ history[r].row.Result = Fail
        /\ history[r].row.ActionType # xReuse
        /\ history[r].row.PlanId = history[p].ActionName
        /\ history[r].row \in {Recorded[k] : k \in 1..Len(Recorded)}

\* every action of the plan that call p reuses was called and returned Pass
AllReusedPassed(p) ==
    /\ history[p].ActionType = xReuse
    /\ PlanExists(history[p].ActionName)
    /\ Cardinality({c \in ReusedCalls(p) : Returned(c, Pass)})
         = Len(ActionsOf(history[p].ActionName))

\* C6: an xReuse call whose reused actions all passed raises nothing, and what it
\* returns is a Pass row with Output 'Reused plan: <id>'.
C6_ReuseOfPassingPlanPasses ==
    \A p \in Events("call") :
        AllReusedPassed(p) =>
            /\ RaisesOf(p) = {}
            /\ \A r \in ReturnsOf(p) :
                 /\ history[r].row.Result = Pass
                 /\ history[r].row.Output = <<"R", "e", "u", "s", "e", "d", " ", "p", "l", "a", "n", ":", " ">> \o history[p].ActionName

\* the run ended with the ValueError of runAction for an xReuse whose reused
\* actions had all passed
C6_Witness ==
    /\ pc = "crashed"
    /\ exception.type = "ValueError"
    /\ exception.msg = <<"U", "n", "k", "n", "o", "w", "n", " ", "a", "c", "t", "i", "o", "n", " ", "t", "y", "p", "e", ":", " ", "x", "R", "e", "u", "s", "e">>
    /\ \E p \in Events("call") : AllReusedPassed(p) /\ RaisesOf(p) # {}

\* C7: an xReuse call that names no plan of the Plans table raises nothing, and
\* what it returns is a Fail row.
C7_ReuseOfMissingPlanFails ==
    \A p \in Events("call") :
        (history[p].ActionType = xReuse /\ ~PlanExists(history[p].ActionName)) =>
            /\ RaisesOf(p) = {}
            /\ \A r \in ReturnsOf(p) : history[r].row.Result = Fail

\* the run ended with the ValueError of process_action for a plan that is not there
C7_Witness ==
    /\ pc = "crashed"
    /\ exception.type = "ValueError"
    /\ exception.msg = <<"R", "e", "u", "s", "e", "d", " ", "p", "l", "a", "n", " ", "P", "9", " ", "n", "o", "t", " ", "f", "o", "u", "n", "d">>
    /\ results_csv = <<>>

\* the plan that call p reuses is being expanded by a call that p is inside of
InCycle(p) ==
    /\ history[p].ActionType = xReuse
    /\ \E a \in Ancestors(p) : history[a].ActionName = history[p].ActionName

\* C8: an xReuse call for a plan that is already being expanded raises nothing:
\* the cycle ends in an outcome, not in the interpreter's recursion limit.
C8_ReuseCycleEndsInOutcome ==
    \A p \in Events("call") : InCycle(p) => RaisesOf(p) = {}

\* the run ended with RecursionError, the stack full of xReuse activations of
\* two plans that reuse each other
C8_Witness ==
    /\ pc = "crashed"
    /\ exception.type = "RecursionError"
    /\ Len(frames) = RecursionLimit
    /\ \E i \in 1..Len(frames) : \E j \in 1..Len(frames) :
         i < j /\ frames[i].reused_plan_id = frames[j].reused_plan_id

\* the position of the top-level call c in its plan is not the last one
HasNextAction(c) ==
    LET actions == ActionsOf(history[c].PlanId)
    IN  actions[Len(actions)].StepId # history[c].StepId

\* C9: when the operation that a call invoked raised, nothing is raised out of the
\* call, runAction gives Fail with an Output that starts 'Error in <ActionName>: ',
\* and in a finished run process_plan has called the next action of the plan for
\* that design unless the action is Critical.
C9_ProviderErrorBecomesFail ==
    \A i \in Events("invoke") :
        LET c == history[i].call
        IN  history[i].raised =>
                /\ RaisesOf(c) = {}
                /\ \A q \in Events("run") :
                     history[q].call = c =>
                        /\ history[q].Result = Fail
                        /\ MatchAt(history[q].Output, 1,
                                   <<"E", "r", "r", "o", "r", " ", "i", "n", " ">> \o history[c].ActionName \o <<":", " ">>)
                /\ ( /\ pc = "done"
                     /\ c \in TopCalls
                     /\ ~history[c].critical
                     /\ HasNextAction(c) )
                   => \E d \in TopCalls :
                        /\ d > c
                        /\ history[d].PlanId = history[c].PlanId
                        /\ history[d].DesignId = history[c].DesignId

\* xGetTitle raised with the browser session open, and the error that
\* save_screenshot raised then ended the run
C9_Witness ==
    /\ pc = "crashed"
    /\ exception.type = "OtherError"
    /\ \E i \in Events("invoke") :
         /\ history[i].raised
         /\ history[history[i].call].ActionName = xGetTitle
         /\ RaisesOf(history[i].call) # {}

\* the action of call c names no operation of the provider of its type
UnknownOperation(c) ==
    /\ history[c].ActionType \in HandlerTypes
    /\ ~HasOperation(history[c].ActionType, history[c].ActionName)

\* C10: a call for an ActionName that is no operation of its provider raises
\* nothing, and runAction gives Fail with the message of the unknown operation.
C10_UnknownOperationFails ==
    \A c \in Events("call") :
        UnknownOperation(c) =>
            /\ RaisesOf(c) = {}
            /\ \A q \in Events("run") :
                 history[q].call = c =>
                    /\ history[q].Result = Fail
                    /\ MatchAt(history[q].Output, 1,
                               <<"E", "r", "r", "o", "r", " ", "i", "n", " ">> \o history[c].ActionName \o <<":", " ", "U", "n", "k", "n", "o", "w", "n", " ">>
                               \o history[c].ActionType \o <<" ", "a", "c", "t", "i", "o", "n", ":", " ">>
                               \o history[c].ActionName)

\* an xUI action that names no operation failed with the browser session open, and
\* the error that save_screenshot raised then ended the run
C10_Witness ==
    /\ pc = "crashed"
    /\ exception.type = "OtherError"
    /\ shared_driver
    /\ \E c \in Events("call") : UnknownOperation(c) /\ RaisesOf(c) # {}

\* the position of a top-level call's plan in plans_to_run and of its design in the
\* plan's design ids
PlanPos(c) == CHOOSE p \in 1..Len(plans_to_run) : plans_to_run[p].PlanId = history[c].PlanId
DesignPos(c) ==
    CHOOSE d \in 1..Len(DesignIdsOf(plans_to_run[PlanPos(c)])) :
        DesignIdsOf(plans_to_run[PlanPos(c)])[d] = history[c].DesignId

\* top-level call j is for the first action of plan p in its design d
StartsPair(j, p, d) ==
    /\ history[j].PlanId = plans_to_run[p].PlanId
    /\ history[j].DesignId = DesignIdsOf(plans_to_run[p])[d]
    /\ history[j].StepId = ActionsOf(plans_to_run[p].PlanId)[1].StepId

\* C11: after a Critical action returned Fail for a (plan, design) pair, the next call
\* process_plan makes is for the first action of another pair, and in a run that
\* finished every later design of that plan and every later plan to run was
\* started from its first action.
C11_CriticalFailStopsOnlyItsPair ==
    \A i \in TopCalls :
        (history[i].critical /\ Returned(i, Fail)) =>
            /\ \A j \in TopCalls :
                 (j > i /\ \A k \in TopCalls : ~(i < k /\ k < j)) =>
                     /\ StartsPair(j, PlanPos(j), DesignPos(j))
                     /\ <<PlanPos(j), DesignPos(j)>> # <<PlanPos(i), DesignPos(i)>>
            /\ pc = "done" =>
                 \A p \in 1..Len(plans_to_run) :
                     \A d \in 1..Len(DesignIdsOf(plans_to_run[p])) :
                         (p > PlanPos(i) \/ (p = PlanPos(i) /\ d > DesignPos(i))) =>
                             \E j \in TopCalls : j > i /\ StartsPair(j, p, d)

\* a finished run in which a Critical action failed for the first design of the
\* first plan, and the plan's second design and the second plan were run
C11_Witness ==
    /\ pc = "done"
    /\ Len(plans_to_run) = 2
    /\ \E i \in TopCalls :
         /\ history[i].critical /\ Returned(i, Fail)
         /\ PlanPos(i) = 1 /\ DesignPos(i) = 1
         /\ \E j \in TopCalls : j > i /\ StartsPair(j, 1, 2)
         /\ \E j \in TopCalls : j > i /\ StartsPair(j, 2, 1)

\* the rows process_plan recorded for the plan at position p of plans_to_run
PlanRows(p) ==
    { history[r].row : r \in { q \in Events("return") :
                                  /\ history[q].call \in TopCalls
                                  /\ history[history[q].call].PlanId = plans_to_run[p].PlanId } }

\* C12: the summary of a finished suite counts as passed exactly the plans all of
\* whose recorded rows have Result Pass, and as failed exactly the plans with a
\* Fail row.
C12_SummaryCountsPlans ==
    pc = "done" =>
        /\ passed_plans = Cardinality({ p \in 1..total_plans :
                                          \A row \in PlanRows(p) : row.Result = Pass })
        /\ failed_plans = Cardinality({ p \in 1..total_plans :
                                          \E row \in PlanRows(p) : row.Result = Fail })

\* a finished suite whose only plan has a Fail row and is counted as passed
C12_Witness ==
    /\ pc = "done"
    /\ total_plans = 1
    /\ \E row \in PlanRows(1) : row.Result = Fail
    /\ passed_plans >= 1

\* C13: when main was interrupted (KeyboardInterrupt, exit status 130), every row
\* that was recorded before the interrupt is in the results file.
C13_InterruptKeepsRecordedRows ==
    pc = "interrupted" =>
        \A k \in 1..Len(Recorded) : \E n \in 1..Len(results_csv) : results_csv[n] = Recorded[k]

\* a run interrupted after rows were recorded, with a shared session that the
\* __main__ block quit
C13_Witness ==
    /\ pc = "interrupted"
    /\ Len(Recorded) >= 2
    /\ shared_driver /\ sessions = 0
    /\ history[Len(history)].ev = "interrupt" /\ history[Len(history)].quit

\* C14: no missing suite config and no missing Plans, Actions or Designs file ends
\* main: no FileNotFoundError leaves it, and main goes on to load the suites that
\* come after.
C14_MissingFileEndsOnlyItsSuite ==
    /\ \A e \in Events("raise") : history[e].type # "FileNotFoundError"
    /\ (pc \notin {"load", "interrupted"}) => configs = <<>>

\* main ended on a missing table file with a suite still to go
C14_Witness ==
    /\ pc = "crashed"
    /\ exception.type = "FileNotFoundError"
    /\ configs = <<"suite">>
    /\ results_csv = <<>>

\* the rows runAction gave for actions of providers that ask nothing of the world
\* outside the process (xMath, xJSON)
OwnOutcomeRows ==
    { history[r].row : r \in { q \in Events("return") :
                                  /\ ~history[q].hit
                                  /\ history[q].row.ActionType \in {xMath, xJSON} } }

\* C15: apart from the action cache and the shared session, nothing an action wrote
\* is read by a later one: two executions of the same operation of such a provider
\* on the same Input and Expected have the same Result and Output, whatever was
\* executed between them.
C15_OnlyCacheAndSessionCarried ==
    \A r1 \in OwnOutcomeRows : \A r2 \in OwnOutcomeRows :
        ( /\ r1.ActionType = r2.ActionType /\ r1.ActionName = r2.ActionName
          /\ r1.Input = r2.Input /\ r1.Expected = r2.Expected )
        => (r1.Result = r2.Result /\ r1.Output = r2.Output)

\* xExtractJson failed before an xGet and passed after it with the value of the
\* response the xGet got
C15_Witness ==
    \E r1 \in OwnOutcomeRows : \E r2 \in OwnOutcomeRows :
        /\ r1.ActionName = xExtractJson /\ r2.ActionName = xExtractJson
        /\ r1.Input = r2.Input
        /\ r1.Result = Fail /\ r2.Result = Pass
        /\ r2.Output = last_response.value

\* the operation of call c was invoked and runAction returned this Output for it
InvokedWith(i, name, session) ==
    /\ history[history[i].call].ActionType = xUI
    /\ history[history[i].call].ActionName = name
    /\ history[i].session = session
Gave(i, output) ==
    /\ ~history[i].raised
    /\ \E q \in Events("run") : history[q].call = history[i].call /\ history[q].Output = output

\* C16: never more than one browser session is open, and while main runs the open
\* session is the shared one every UI action drives; xOpenBrowser invoked with the
\* shared session open returns 'Browser already open', xCloseBrowser invoked with
\* none returns 'No browser to close' and raises nothing.
C16_AtMostOneSession ==
    /\ sessions <= 1
    /\ pc # "interrupted" => sessions = (IF shared_driver THEN 1 ELSE 0)
    /\ \A i \in Events("invoke") :
         /\ InvokedWith(i, xOpenBrowser, TRUE) => Gave(i, <<"B", "r", "o", "w", "s", "e", "r", " ", "a", "l", "r", "e", "a", "d", "y", " ", "o", "p", "e", "n">>)
         /\ InvokedWith(i, xCloseBrowser, FALSE) => Gave(i, <<"N", "o", " ", "b", "r", "o", "w", "s", "e", "r", " ", "t", "o", " ", "c", "l", "o", "s", "e">>)

\* two sessions are open: one that xOpenBrowser started and did not publish, and
\* the shared one; xCloseBrowser in between found no browser to close
C16_Witness ==
    /\ sessions = 2
    /\ shared_driver
    /\ \E i \in Events("invoke") :
         InvokedWith(i, xCloseBrowser, FALSE) /\ Gave(i, <<"N", "o", " ", "b", "r", "o", "w", "s", "e", "r", " ", "t", "o", " ", "c", "l", "o", "s", "e">>)

\* the rows of the result stream
RecordedRows == { Recorded[k] : k \in 1..Len(Recorded) }

\* C17: when an xReuse step has returned to process_plan, the result stream holds
\* the row of every action that was executed inside its expansion, and a row for
\* the xReuse step itself.
C17_ReusedActionsHaveRows ==
    \A p \in TopCalls :
        (history[p].ActionType = xReuse /\ ReturnsOf(p) # {}) =>
            /\ \A c \in Events("call") : \A r \in ReturnsOf(c) :
                 (p \in Ancestors(c) /\ history[c].ActionType # xReuse)
                     => history[r].row \in RecordedRows
            /\ \E row \in RecordedRows :
                 /\ row.PlanId = history[p].PlanId /\ row.DesignId = history[p].DesignId
                 /\ row.StepId = history[p].StepId /\ row.ActionType = xReuse

\* an xReuse step returned after two reused actions were executed; the stream has
\* one row for all of it
C17_Witness ==
    /\ pc = "done"
    /\ \E p \in TopCalls :
         /\ history[p].ActionType = xReuse /\ ReturnsOf(p) # {}
         /\ Cardinality({ c \in ReusedCalls(p) : ReturnsOf(c) # {} }) >= 2
         /\ Cardinality({ row \in RecordedRows : row.DesignId = history[p].DesignId }) = 1

\* call c is made by an xReuse loop for xUI xOpenBrowser
ReusedOpen(c) ==
    /\ history[c].parent # 0
    /\ history[c].ActionType = xUI
    /\ history[c].ActionName = xOpenBrowser

\* no exception left call c, and the xReuse step that made it did not return c's row
NotFailedBy(c) ==
    /\ RaisesOf(c) = {}
    /\ \A r \in ReturnsOf(history[c].parent) :
         ~(history[r].row.ActionType = xUI /\ history[r].row.ActionName = xOpenBrowser)

\* C18: for an xUI xOpenBrowser among the reused actions the operation is not
\* invoked while the shared session is open, and the expansion does not end with
\* that action's error or row.
C18_ReusedOpenIsSkipped ==
    /\ \A i \in Events("invoke") :
         ~(ReusedOpen(history[i].call) /\ history[i].session)
    /\ \A c \in Events("call") : ReusedOpen(c) => NotFailedBy(c)

\* xOpenBrowser was invoked from an xReuse loop with the shared session open; it
\* started no session and the loop went on to the next reused action
C18_Witness ==
    \E i \in Events("invoke") :
        /\ ReusedOpen(history[i].call) /\ history[i].session
        /\ Gave(i, <<"B", "r", "o", "w", "s", "e", "r", " ", "a", "l", "r", "e", "a", "d", "y", " ", "o", "p", "e", "n">>)
        /\ sessions = 1
        /\ \E c \in ReusedCalls(history[history[i].call].parent) : c > history[i].call

\* the Fail rows of the results file
FailRows == SelectSeq(results_csv, LAMBDA row : row.Result = Fail)

\* C19: after a run in which _errors.csv could be written, the error log has as
\* many rows as the results file has rows with Result Fail.
C19_ErrorLogRowPerFailRow ==
    (pc = "done" /\ log_writable) => Len(error_log) = Len(FailRows)

\* a finished run with a writable error log: an action failed for the first design
\* and its Fail row for the second design came from the cache, leaving two Fail
\* rows and one error-log row
C19_Witness ==
    /\ pc = "done" /\ log_writable
    /\ Len(FailRows) = 2 /\ Len(error_log) = 1
    /\ \E r \in Events("return") :
         history[r].hit /\ history[r].row.Result = Fail /\ history[r].row \in RecordedRows

\* the number a decimal text of at most seven decimals stands for, in units of 1e-7
Scaled(t) == ParseFloat(t).mant * Pow10(7 - ParseFloat(t).dec)
IsNumber(t) == ParseFloat(t).ok

Absent(t) == t = <<>> \/ Lower(t) \in { <<"n", "a", "n">>, <<"n", "o", "n", "e">> }

\* runAction invoked the operation of the call that return r belongs to, and the
\* operation returned
OperationReturned(r) ==
    /\ ~history[r].hit
    /\ \E i \in Events("invoke") : history[i].call = history[r].call /\ ~history[i].raised

\* C21: a row of an action whose resolved Expected is absent and whose operation
\* returned without raising has Result Pass, whatever the output.
C21_AbsentExpectedPasses ==
    \A r \in Events("return") :
        (Absent(history[r].row.Expected) /\ OperationReturned(r)) => history[r].row.Result = Pass

\* operations returned different outputs for Expected cells 'None', 'NaN' and the
\* empty text, and the rows are Pass
C21_Witness ==
    /\ \E r \in Events("return") :
         /\ OperationReturned(r) /\ history[r].row.Expected = <<"N", "o", "n", "e">>
         /\ history[r].row.Output = <<"N", "o", " ", "b", "r", "o", "w", "s", "e", "r", " ", "t", "o", " ", "c", "l", "o", "s", "e">> /\ history[r].row.Result = Pass
    /\ \E r \in Events("return") :
         /\ OperationReturned(r) /\ history[r].row.Expected = <<"N", "a", "N">>
         /\ history[r].row.Result = Pass

\* the returns process_plan got for the plan at position p, in order
PlanReturns(p) ==
    SelectSeq(history, LAMBDA e : /\ e.ev = "return"
                                  /\ history[e.call].parent = 0
                                  /\ history[e.call].PlanId = plans_to_run[p].PlanId)

\* no Critical action of the plan at position p returned Fail
NoCriticalFail(p) ==
    \A c \in TopCalls :
        (history[c].PlanId = plans_to_run[p].PlanId /\ history[c].critical) => ~Returned(c, Fail)

\* the row of the Actions table that a result row is about
ActionOfRow(row) ==
    CHOOSE i \in 1..Len(yActions) :
        yActions[i].PlanId = row.PlanId /\ yActions[i].StepId = row.StepId

\* C22: when main is over with the suite, a plan to run with n designs and k
\* actions, none of which failed critically, has given n * k rows: the row at place
\* (d - 1) * k + a is the one process_plan got for design d and action a, carries
\* that design's id, and has the Input and Expected cells of its action with the
\* design's values put in.
C22_RowPerDesignAndAction ==
    pc \in {"done", "crashed"} =>
        \A p \in 1..Len(plans_to_run) :
            NoCriticalFail(p) =>
                LET designs == SplitAll(plans_to_run[p].DesignId, ";")
                    actions == ActionsOf(plans_to_run[p].PlanId)
                    n == Len(designs)
                    k == Len(actions)
                    got == PlanReturns(p)
                IN  /\ Len(got) = n * k
                    /\ \A d \in 1..n : \A a \in 1..k :
                         LET e == got[(d - 1) * k + a]
                             cell == yActions[ActionOfRow(e.row)]
                         IN  /\ history[e.call].DesignId = designs[d]
                             /\ history[e.call].StepId = actions[a].StepId
                             /\ e.row.DesignId = designs[d]
                             /\ e.row.Input = Resolve(cell.Input, designs[d])
                             /\ e.row.Expected = Resolve(cell.Expected, designs[d])

\* the call of process_plan under which call c runs
RECURSIVE RootCall(_)
RootCall(c) == IF history[c].parent = 0 THEN c ELSE RootCall(history[c].parent)

\* the DesignId cell of the Plans row of a plan
OwnDesignId(plan_id) ==
    yPlans[CHOOSE i \in 1..Len(yPlans) : yPlans[i].PlanId = plan_id].DesignId

\* the row carries design d, and the Input and Expected of its action with the
\* values of d put in
RowUnder(row, cell, d) ==
    /\ row.DesignId = d
    /\ row.Input = Resolve(cell.Input, d)
    /\ row.Expected = Resolve(cell.Expected, d)

\* C23: a call made by an xReuse loop, at any depth, has the DesignId of the call of
\* process_plan it runs under and the Input of its action with that design's values
\* put in; every row it returns carries that DesignId, and the Input and Expected of
\* the row's action with that design's values put in.
C23_ReusedRunsUnderCallersDesign ==
    \A c \in 1..Len(history) :
        (history[c].ev = "call" /\ history[c].parent # 0) =>
            \E d \in {history[RootCall(c)].DesignId} :
                /\ history[c].DesignId = history[history[c].parent].DesignId
                /\ history[c].DesignId = d
                /\ history[c].Input = Resolve(yActions[ActionOfRow(history[c])].Input, d)
                /\ \A r \in ReturnsOf(c) :
                     RowUnder(history[r].row, yActions[ActionOfRow(history[r].row)], d)

\* P1 runs for D1 and reuses P2, whose own DesignId is D2: the reused action with
\* Input 'u;a' ran as 'a;a' and returned a row for D1
C23_Witness ==
    /\ OwnDesignId(P2) = D2
    /\ \E c \in Events("call") : \E r \in ReturnsOf(c) :
         /\ history[c].parent # 0 /\ history[c].PlanId = P2 /\ history[c].DesignId = D1
         /\ yActions[ActionOfRow(history[c])].Input = <<"u", ";", "a">>
         /\ history[r].row.DesignId = D1 /\ history[r].row.Input = <<"a", ";", "a">>

\* the cache key of call c
KeyOf(c) == CacheKey(history[c].PlanId, history[c].StepId, history[c].Input)

\* what the runAction of call c gave
RunsOf(c) == {u \in Events("run") : history[u].call = c}
Outcome(u) == <<history[u].Result, history[u].Output, history[u].TimeTaken>>

\* the calls among calls for the PlanId and StepId of call c with another resolved
\* Input
OtherInputs(calls, c) ==
    {d \in calls : /\ history[c].StepId = history[d].StepId
                   /\ history[c].PlanId = history[d].PlanId
                   /\ history[c].Input # history[d].Input}

\* C24: two calls for the same PlanId and StepId whose resolved Inputs differ have
\* different cache keys; the entry under the key of a call that was executed holds
\* what that execution gave, and a hit returns what an execution with the same
\* resolved Input gave.
C24_InputsKeepEntriesApart ==
    \E calls \in {Events("call")} : \A c \in calls :
        \E others \in {OtherInputs(calls, c)} : \E key \in {KeyOf(c)} :
            others # {} =>
                /\ \A d \in others : key # KeyOf(d)
                /\ \A u \in RunsOf(c) : Cached(key) => action_cache[key] = Outcome(u)
                /\ \A r \in ReturnsOf(c) :
                     history[r].hit =>
                        /\ <<history[r].row.Result, history[r].row.Output,
                             history[r].row.TimeTaken>> = action_cache[key]
                        /\ \E e \in calls : \E u \in RunsOf(e) :
                             SameStep(c, e) /\ action_cache[key] = Outcome(u)

\* a step was executed with two different resolved Inputs, each execution has its
\* entry, and a later call with one of the two Inputs was served from the cache
C24_Witness ==
    \E c \in Events("call") : \E d \in Events("call") : \E h \in Events("call") :
        /\ history[c].PlanId = history[d].PlanId /\ history[c].StepId = history[d].StepId
        /\ history[c].Input # history[d].Input
        /\ RunsOf(c) # {} /\ RunsOf(d) # {}
        /\ Cached(KeyOf(c)) /\ Cached(KeyOf(d))
        /\ SameStep(h, d) /\ \E r \in ReturnsOf(h) : history[r].hit

\* the "suite" events: main loaded a suite with a plan to run
SuiteStarts == Events("suite")

\* C25: the cache is empty when main starts on its configs, and no step of main, of
\* a plan or of a suite takes an entry out of the cache or changes it: every key
\* stays, with its outcome, from the step that stored it to the end of the run.
C25_CacheOnlyGrows ==
    /\ action_cache = <<>>
    /\ [][\A k \in DOMAIN action_cache :
             k \in DOMAIN action_cache' /\ action_cache'[k] = action_cache[k]]_vars

\* main is in its second suite: the cache holds what the first one stored, and a
\* call of the second suite was served with it
C25_Witness ==
    /\ Cardinality(SuiteStarts) = 2
    /\ \E r \in Events("return") : \E u \in Events("run") :
         /\ history[r].hit
         /\ \A s \in SuiteStarts : u < s \/ s < r
         /\ \E s \in SuiteStarts : u < s /\ s < r
         /\ SameStep(history[u].call, history[r].call)
         /\ action_cache[KeyOf(history[r].call)] = Outcome(u)

\* the configs main came to and found to be suites: "suite" events for those it
\* ran, "skip" events for those with no plan to run
SuiteSkips == {k \in Events("skip") : history[k].config \in {"suite", "norun"}}
\* the event of main's arrival at the suite that event i belongs to
ArrivalBefore(i) ==
    CHOOSE s \in 1..(i - 1) :
        /\ history[s].ev \in {"suite", "skip"}
        /\ \A t \in (s + 1)..(i - 1) : history[t].ev \notin {"suite", "skip"}

\* C28: every call process_plan makes is for a plan whose Run cell is 'Y' in the
\* Plans table of the suite main loaded before it. Where main found a suite with no
\* such plan, no action was called and nothing was raised before main came to its
\* next config, and main went on: it is at its next config, or over when there is
\* none.
C28_OnlyRunPlansExecuted ==
    /\ \A c \in TopCalls :
         /\ \E s \in SuiteStarts : s < c
         /\ \E a \in {ArrivalBefore(c)} :
              /\ a \in SuiteStarts
              /\ \E i \in DOMAIN yPlans :
                   /\ PlansOf(history[a].config)[i].PlanId = history[c].PlanId
                   /\ PlansOf(history[a].config)[i].Run = <<"Y">>
    /\ \A k \in SuiteSkips :
         /\ \A i \in (k + 1)..Len(history) :
              history[i].ev \in {"call", "raise", "run"} => ArrivalBefore(i) > k
         /\ k = Len(history) =>
              /\ pc = IF configs = <<>> THEN "done" ELSE "load"
              /\ exception.type = ""

\* main skipped a suite whose Plans have Run cells 'N' and 'y', then ran the next
\* suite to its end
C28_Witness ==
    /\ pc = "done"
    /\ \E k \in SuiteSkips : \E s \in SuiteStarts : \E r \in Events("return") :
         /\ history[k].config = "norun"
         /\ k < s /\ s < r
         /\ \E i \in DOMAIN NoRunPlans : NoRunPlans[i].Run = <<"y">>
         /\ \A c \in Events("call") : c > k

\* an occurrence of name in t at position i with no letter, digit or underscore
\* next to it
WholeWordAt(t, i, name) ==
    /\ MatchAt(t, i, name)
    /\ i = 1 \/ t[i - 1] \notin WordChars
    /\ i + Len(name) > Len(t) \/ t[i + Len(name)] \notin WordChars
\* the rows of a table whose DataName is a whole word of t at position i
RowsAt(rows, t, i) == {n \in 1..Len(rows) : WholeWordAt(t, i, rows[n].DataName)}
\* t from position i on, with every whole-word occurrence of a DataName replaced by
\* the value of its row for the design, and nothing else changed
RECURSIVE WholeWordsReplaced(_, _, _, _)
WholeWordsReplaced(rows, design_id, t, i) ==
    IF i > Len(t) THEN <<>>
    ELSE IF RowsAt(rows, t, i) # {}
         THEN LET n == CHOOSE n \in RowsAt(rows, t, i) : TRUE
              IN  rows[n].value[design_id]
                    \o WholeWordsReplaced(rows, design_id, t, i + Len(rows[n].DataName))
         ELSE <<t[i]>> \o WholeWordsReplaced(rows, design_id, t, i + 1)

\* the resolutions that were made and did not raise
Resolutions == {k \in 1..Len(applied.value) : applied.fn = "Resolve" /\ ~applied.value[k].raised}

\* C26: under a design that has a column, the Input and the Expected that
\* process_action goes on with are the cells with exactly the whole-word occurrences
\* of each DataName replaced by the design's value.
C26_ExactlyWholeWordsReplaced ==
    \A k \in Resolutions :
        applied.args[2] \in DesignColumns =>
            /\ applied.value[k].input_data =
                 WholeWordsReplaced(applied.args[1], applied.args[2], applied.args[3], 1)
            /\ applied.value[k].expected =
                 WholeWordsReplaced(applied.args[1], applied.args[2], applied.args[4], 1)

\* no DataName of the table is a whole word anywhere in t
NoWholeWord(rows, t) == \A i \in 1..Len(t) : RowsAt(rows, t, i) = {}

\* C27: resolution does not raise; it leaves a text as it is when the design has no
\* column or when no DataName is a whole word of the text; and resolving the same
\* cells under the same design a second time gives what the first time gave.
C27_NeverRaisesLeavesUnmatched ==
    applied.fn = "Resolve" =>
        \A k \in 1..Len(applied.value) :
            LET rows == applied.args[1]
                design_id == applied.args[2]
                got == applied.value[k]
            IN  /\ ~got.raised
                /\ (design_id \notin DesignColumns \/ NoWholeWord(rows, applied.args[3]))
                      => got.input_data = applied.args[3]
                /\ (design_id \notin DesignColumns \/ NoWholeWord(rows, applied.args[4]))
                      => got.expected = applied.args[4]
                /\ got = applied.value[1]

\* C30: no exception of a side-artifact write (the screenshot, the output file, the
\* row of the error log) leaves runAction: every action whose operation was invoked
\* has the outcome runAction returned for it, and that outcome is Fail where the
\* operation raised, whether or not the artifacts could be written.
C30_ArtifactFailuresContained ==
    /\ \A e \in Events("raise") : history[e].type # "OtherError"
    /\ \A i \in Events("invoke") :
         /\ RunsOf(history[i].call) # {}
         /\ \A u \in RunsOf(history[i].call) :
              history[i].raised => history[u].Result = Fail

\* where a row stands by its own PlanId, DesignId and StepId: the place of its plan
\* in the Plans table, of its design in that plan's DesignId list (0 when the list
\* does not have it), of its action among the plan's actions
PlanPlace(row) == CHOOSE i \in 1..Len(yPlans) : yPlans[i].PlanId = row.PlanId
DesignPlace(row) ==
    LET ds == DesignIdsOf(yPlans[PlanPlace(row)])
    IN  IF \E d \in 1..Len(ds) : ds[d] = row.DesignId
        THEN CHOOSE d \in 1..Len(ds) : ds[d] = row.DesignId
        ELSE 0
ActionPlace(row) ==
    CHOOSE a \in 1..Len(ActionsOf(row.PlanId)) : ActionsOf(row.PlanId)[a].StepId = row.StepId
\* row r comes before row s in the order of plans, designs and actions
Precedes(r, s) ==
    \/ PlanPlace(r) < PlanPlace(s)
    \/ PlanPlace(r) = PlanPlace(s) /\ DesignPlace(r) < DesignPlace(s)
    \/ PlanPlace(r) = PlanPlace(s) /\ DesignPlace(r) = DesignPlace(s)
         /\ ActionPlace(r) < ActionPlace(s)

\* C29: the rows main and process_plan hold are rows of plans to run and of designs
\* of their plans, and each row comes before the rows after it in the order of the
\* Plans table, of the plan's DesignId list and of the plan's actions.
C29_RowsInTableOrder ==
    \A j \in 1..Len(Recorded) :
        /\ yPlans[PlanPlace(Recorded[j])].Run = <<"Y">>
        /\ DesignPlace(Recorded[j]) # 0
        /\ \A i \in 1..(j - 1) : Precedes(Recorded[i], Recorded[j])

\* the returns process_plan got for the plan of report k: those since the report or
\* the start of the suite before it
ReportedRows(k) ==
    {r \in 1..(k - 1) :
        /\ history[r].ev = "return"
        /\ history[history[r].call].parent = 0
        /\ \A j \in (r + 1)..(k - 1) : history[j].ev \notin {"report", "suite"}}

\* C31: process_plan reports its plan as completed successfully exactly when every
\* row the plan produced, over all its designs and actions and with the rows of its
\* Reuse steps, is a Pass row.
C31_SuccessIffAllRowsPass ==
    \A k \in Events("report") :
        history[k].successfully <=> \A r \in ReportedRows(k) : history[r].row.Result = Pass

\* a plan of two designs was reported as completed successfully after Pass rows only,
\* and a plan with a Fail row of its own as completed with issues
C31_Witness ==
    /\ \E k \in Events("report") :
         /\ history[k].successfully /\ history[k].total_actions >= 2
         /\ \A r \in ReportedRows(k) : history[r].row.Result = Pass
    /\ \E k \in Events("report") :
         /\ ~history[k].successfully
         /\ \E r \in ReportedRows(k) : history[r].row.Result = Fail

\* the attempts find_element has made and the pauses it has taken
FindTrace == applied.value.trace
FindWaited == {i \in 1..Len(FindTrace) : FindTrace[i].ev = "wait"}
FindOver == applied.value.pc \in {"returned", "raised"}

\* find_element has made at most 3 attempts, with one pause of 1 second between two
\* attempts and none elsewhere; an attempt that found the element was the last and
\* find_element returned; after a third timeout it raised that timeout
FindWithinBudget ==
    /\ Cardinality(FindWaited) <= 3
    /\ \A i \in 1..Len(FindTrace) :
         /\ FindTrace[i].ev = (IF i % 2 = 1 THEN "wait" ELSE "sleep")
         /\ FindTrace[i].ev = "sleep" =>
                /\ FindTrace[i].outcome = "1"
                /\ i = Len(FindTrace) => applied.value.pc = "wait"
         /\ (FindTrace[i].ev = "wait" /\ FindTrace[i].outcome = "element") =>
                i = Len(FindTrace) /\ applied.value.pc = "returned"
    /\ applied.value.pc = "returned" =>
         FindTrace # <<>> /\ FindTrace[Len(FindTrace)].outcome = "element"
    /\ ( /\ Cardinality(FindWaited) = 3
         /\ \A i \in FindWaited : FindTrace[i].outcome \in CaughtByFind ) =>
            /\ applied.value.pc = "raised"
            /\ applied.value.last_exception = FindTrace[Len(FindTrace)].outcome

\* C32: find_element makes at most 3 attempts (1 and 2 retries) with one pause of 1
\* second between consecutive attempts, returns on the first attempt that succeeds,
\* raises the timeout after the last one, and always comes to its end.
C32_FindElementWithinBudget == [](FindWithinBudget) /\ <>FindOver

\* three attempts timed out with two pauses between them, and the last timeout was
\* raised
C32_Witness ==
    /\ applied.fn = "find_element"
    /\ Cardinality(FindWaited) = 3 /\ Len(FindTrace) = 5
    /\ \A i \in FindWaited : FindTrace[i].outcome = "TimeoutException"
    /\ applied.value.pc = "raised" /\ applied.value.last_exception = "TimeoutException"

\* the operation of the call that is due, run now instead of being served from the
\* cache, can give the Result and Output of the entry and leave the session and the
\* last response as they are
HitIsTransparent ==
    \E a \in {Args} :
        \E env \in EnvOf(a.action_row.ActionType, a.action_row.ActionName, a.input_data,
                         a.expected, a.action_row.ActionType = xUI, shared_driver) :
            \E r \in {RunAction(a.action_row.ActionType, a.action_row.ActionName, a.input_data,
                                a.expected, a.plan_id, a.design_id, a.action_row.StepId,
                                a.action_row.ActionType = xUI, shared_driver, env)} :
                /\ ~r.escaped
                /\ r.vRes = action_cache[a.cache_key][1]
                /\ r.vOut = action_cache[a.cache_key][2]
                /\ r.driver = shared_driver
                /\ LastResponse(a.action_row.ActionType, a.action_row.ActionName,
                                a.input_data, env) = last_response

\* C33: a run with the cache gives the Result and Output a run without it gives, and
\* leaves later operations the same session and provider state: at every cache hit,
\* the operation that is skipped would, if it ran, give the row's Result and Output
\* and change neither the shared session nor the last response.
C33_CacheIsTransparent == [][CacheHit => HitIsTransparent]_vars

\* a stateless operation was served from the cache
C33_Witness ==
    \E r \in Events("return") :
        /\ history[r].hit
        /\ history[r].row.ActionType = xMath /\ history[r].row.ActionName = xCompare

\* the row of return r is the outcome of an operation that returned: in the call
\* itself, or in the call whose entry the row was served from
FromReturnedOperation(r) ==
    \E i \in Events("invoke") :
        ~history[i].raised /\ SameStep(history[i].call, history[r].call)

\* C34: the Result of every row of an operation that returned is the verdict of the
\* Pass/Fail rule on the row's own Expected and Output, rows served from the cache
\* included.
C34_ResultAgreesWithOwnExpected ==
    \A r \in Events("return") :
        FromReturnedOperation(r) =>
            history[r].row.Result = Verdict(history[r].row.Expected, history[r].row.Output)

\* a row was served from the cache for a design whose Expected differs from the one
\* of the design the entry was stored for
C34_Witness ==
    \E r \in Events("return") : \E q \in Events("return") :
        /\ history[r].hit /\ ~history[q].hit
        /\ SameStep(history[q].call, history[r].call)
        /\ FromReturnedOperation(r)
        /\ history[q].row.Expected # history[r].row.Expected

\* the ActionType of call c is no key of runAction's handlers with a handler, and is
\* not the xReuse that process_action expands itself
NoProvider(c) == history[c].ActionType \notin HandlerTypes \cup {xReuse}

\* C35: a call for an ActionType without a provider raises nothing and returns a Fail
\* row, after which the run goes on; no call ends with runAction's error for an
\* unknown action type, whatever its ActionType.
C35_UnknownTypeFails ==
    /\ \A c \in Events("call") :
         NoProvider(c) =>
            /\ RaisesOf(c) = {}
            /\ \A r \in ReturnsOf(c) : history[r].row.Result = Fail
    /\ \A e \in Events("raise") : ~MatchAt(history[e].msg, 1, <<"U", "n", "k", "n", "o", "w", "n", " ", "a", "c", "t", "i", "o", "n", " ", "t", "y", "p", "e">>)

\* the run ended with the ValueError of runAction for an xSAP action, before the
\* next action of the plan was called
C35_Witness ==
    /\ pc = "crashed"
    /\ exception.type = "ValueError"
    /\ exception.msg = <<"U", "n", "k", "n", "o", "w", "n", " ", "a", "c", "t", "i", "o", "n", " ", "t", "y", "p", "e", ":", " ", "x", "S", "A", "P">>
    /\ \E c \in Events("call") : NoProvider(c) /\ RaisesOf(c) # {} /\ ReturnsOf(c) = {}
    /\ Cardinality(Events("call")) = 1

IsTimerCall(c, name) == history[c].ActionType = xUI /\ history[c].ActionName = name

\* an xUI xStartTimer action returned a Pass row before call c was made
StartTimerPassedBefore(c) ==
    \E r \in Events("return") :
        /\ r < c
        /\ IsTimerCall(history[r].call, xStartTimer)
        /\ history[r].row.Result = Pass

TimerNotStarted(row) ==
    \E i \in 1..Len(row.Output) : MatchAt(row.Output, i, <<"T", "i", "m", "e", "r", " ", "n", "o", "t", " ", "s", "t", "a", "r", "t", "e", "d">>)

\* C36: an xUI xStopTimer action called after an xUI xStartTimer action of the run
\* has passed returns a Pass row whose Output is not the 'Timer not started' error.
C36_StopTimerFindsTimerStarted ==
    \A r \in Events("return") :
        IsTimerCall(history[r].call, xStopTimer) /\ StartTimerPassedBefore(history[r].call) =>
            history[r].row.Result = Pass /\ ~TimerNotStarted(history[r].row)

\* an xStopTimer action returned after an xStartTimer action had passed
C36_Witness ==
    \E r \in Events("return") :
        /\ IsTimerCall(history[r].call, xStopTimer)
        /\ StartTimerPassedBefore(history[r].call)
        /\ ~history[r].hit

KeyCalls == IF applied.fn = "cache_key" THEN applied.value ELSE <<>>

\* C37: two process_action calls whose (PlanId, StepId, resolved Input) differ have
\* different cache keys, so a call is served from the cache only with the outcome
\* of a call of its own triple.
C37_CacheKeyInjective ==
    \A i \in 1..Len(KeyCalls) : \A j \in 1..Len(KeyCalls) :
        KeyCalls[i].triple # KeyCalls[j].triple => KeyCalls[i].key # KeyCalls[j].key

\* a call was served from the cache with the outcome of a call of another triple
C37_Witness ==
    \E i \in 1..Len(KeyCalls) : \E j \in 1..(i - 1) :
        /\ KeyCalls[i].hit /\ ~KeyCalls[j].hit
        /\ KeyCalls[i].key = KeyCalls[j].key
        /\ KeyCalls[i].triple # KeyCalls[j].triple

\* C38: in the summary of a finished suite passed + failed = total plans,
\* 0 <= passed <= total and failed >= 0.
C38_SummaryCountsWithinTotal ==
    pc = "done" =>
        /\ passed_plans + failed_plans = total_plans
        /\ 0 <= passed_plans /\ passed_plans <= total_plans
        /\ failed_plans >= 0

\* a finished suite whose plans ran for two designs, with a Pass and a Fail row
C38_Witness ==
    /\ pc = "done"
    /\ Cardinality(SummaryGroups) > total_plans
    /\ \E i \in 1..Len(results_csv) : results_csv[i].Result = Pass
    /\ \E i \in 1..Len(results_csv) : results_csv[i].Result = Fail

\* the rows of a Designs table in the opposite order
OppositeOrder(rows) == [n \in 1..Len(rows) |-> rows[Len(rows) + 1 - n]]

\* C39: the Input and the Expected that process_action goes on with are the same for
\* a Designs table and for the table with its rows in the opposite order.
C39_RowOrderDoesNotMatter ==
    \A k \in Resolutions :
        /\ applied.value[k].input_data =
             ResolveWith(OppositeOrder(applied.args[1]), applied.args[3], applied.args[2])
        /\ applied.value[k].expected =
             ResolveWith(OppositeOrder(applied.args[1]), applied.args[4], applied.args[2])

\* a cell was resolved under a table in which the value of a row is the DataName of
\* a later row, and the text changed
C39_Witness ==
    \E k \in Resolutions :
        /\ applied.args[2] \in DesignColumns
        /\ \E n \in 1..Len(applied.args[1]) : \E m \in (n + 1)..Len(applied.args[1]) :
             applied.args[1][n].value[applied.args[2]] = applied.args[1][m].DataName
        /\ applied.value[k].input_data # applied.args[3]

\* invocation i closed the shared session / opened a new one
ClosedSession(i) == InvokedWith(i, xCloseBrowser, TRUE) /\ ~history[i].raised
OpenedSession(i) == InvokedWith(i, xOpenBrowser, FALSE) /\ ~history[i].raised

\* an xCloseBrowser closed the session before event k, and no xOpenBrowser opened one
\* between the two
ClosedBefore(k) ==
    \E i \in Events("invoke") :
        /\ i < k
        /\ ClosedSession(i)
        /\ \A j \in Events("invoke") : (i < j /\ j < k) => ~OpenedSession(j)

NeedsDriver(c) == history[c].ActionType = xUI /\ history[c].ActionName = xGetTitle

DriverNotInitialized(output) ==
    \E n \in 1..Len(output) : MatchAt(output, n, <<"D", "r", "i", "v", "e", "r", " ", "n", "o", "t", " ", "i", "n", "i", "t", "i", "a", "l", "i", "z", "e", "d">>)

\* no operation that needs the driver is invoked with a session between the
\* xCloseBrowser that closed it and the next xOpenBrowser that opens one
NoOperationOnClosedSession ==
    \A i \in Events("invoke") :
        (NeedsDriver(history[i].call) /\ ClosedBefore(i)) =>
            ~history[i].session /\ history[i].raised

\* C40: between an xCloseBrowser that closed the session and the next xOpenBrowser
\* that opens one, no operation runs against a session, and every UI action that
\* needs the driver returns a Fail row with the driver-not-initialized error.
C40_ClosedSessionNotDriven ==
    /\ NoOperationOnClosedSession
    /\ \A r \in Events("return") :
         (NeedsDriver(history[r].call) /\ ClosedBefore(history[r].call)) =>
            /\ history[r].row.Result = Fail
            /\ DriverNotInitialized(history[r].row.Output)

\* xGetTitle was invoked after the session was closed and failed for the missing
\* driver, and a later xGetTitle action returned a row with no session opened since
C40_Witness ==
    /\ \E i \in Events("invoke") :
         /\ NeedsDriver(history[i].call) /\ ClosedBefore(i)
         /\ history[i].raised
    /\ \E r \in Events("return") :
         /\ NeedsDriver(history[r].call) /\ ClosedBefore(history[r].call)
         /\ history[r].hit

====
